---- MODULE Spec2Model ----
(***************************************************************************)
(* Model of the request / auth / auto-refresh orchestration layer of the   *)
(* PocketBase JS client: Client.send with its cancellation registry and    *)
(* hooks, BaseAuthStore, the jwt helpers and registerAutoRefresh.          *)
(*                                                                         *)
(* The program runs on one event loop.  An action of the model is one run  *)
(* of a handler from a suspension point (an await) to the next one.  The   *)
(* code of a handler is written as operators that map a state record to a  *)
(* state record, so that a handler calling another one is a composition.   *)
(***************************************************************************)
EXTENDS Integers, Sequences, FiniteSets, TLC

\* ------------------------------------------------------------------ bounds
MaxSends == 2       \* concurrent send() calls of the application
MaxListeners == 2   \* callbacks registered with the store at a time
MaxHandles == 3     \* removal functions that onChange returned and the application kept
MaxAsync == 2       \* save / clear calls made on the AsyncAuthStore
MaxOps == 3         \* subscribe / unsubscribe calls made on the realtime service
MaxConnects == 2    \* EventSource transports that the realtime service opens
MaxTime == 1       \* the clock runs over 0..MaxTime
MaxExp == 3         \* the exp claim of a long-lived token
Threshold == 2      \* the positive autoRefreshThreshold that callers pass

VARIABLES
    reqs,                   \* the send() calls on record, in issue order
    cancelControllers,      \* Client.cancelControllers: key -> request id, 0 = no entry
    enableAutoCancellation, \* Client.enableAutoCancellation
    beforeSend,             \* Client.beforeSend: "none", "user" or "wrapper"
    afterSend,              \* Client.afterSend: "none" or "user"
    baseToken,              \* BaseAuthStore.baseToken
    baseModel,              \* BaseAuthStore.baseModel
    onChangeCallbacks,      \* BaseAuthStore._onChangeCallbacks
    binding,                \* closure of client._resetAutoRefresh, or NoBinding
    now,                    \* Date.now() / 1000
    lastCall,               \* what the last step did to the store (observation)
    rt,                     \* the RealtimeService, its transport and the server
    removers,               \* the functions onChange returned that the application kept
    persistence             \* AsyncAuthStore: its clearFunc and the promises of its calls

vars == <<reqs, cancelControllers, enableAutoCancellation, beforeSend, afterSend,
          baseToken, baseModel, onChangeCallbacks, binding, now, lastCall, rt, removers,
          persistence>>

\* ------------------------------------------------------------------ tokens
\* A token is known by what jose.decodeJwt makes of it: "empty" and "bad" do
\* not decode, "noexp" decodes to claims without exp, "jwt" carries exp.
EmptyToken == [kind |-> "empty", exp |-> 0]
BadToken == [kind |-> "bad", exp |-> 0]
NoExpToken == [kind |-> "noexp", exp |-> 0]
Jwt(e) == [kind |-> "jwt", exp |-> e]
\* exp claims in use: a token expiring at once, and a long-lived one
Exps == {0, MaxExp}
Tokens == {EmptyToken, BadToken, NoExpToken} \cup {Jwt(e) : e \in Exps}

\* getTokenPayload: "JWTInvalid" when jose.decodeJwt throws, else the claims
getTokenPayload(token) ==
    IF token.kind \in {"empty", "bad"} THEN [err |-> "JWTInvalid", hasExp |-> FALSE, exp |-> 0]
    ELSE [err |-> "none", hasExp |-> token.kind = "jwt", exp |-> token.exp]

\* jwtExpiration: throws Error('Invalid token payload.') without an exp claim
jwtExpiration(token) ==
    LET payload == getTokenPayload(token) IN
    IF payload.err # "none" THEN [err |-> payload.err, exp |-> 0]
    ELSE IF ~payload.hasExp THEN [err |-> "Error", exp |-> 0]
    ELSE [err |-> "none", exp |-> payload.exp]

\* isTokenExpired(token, expirationThreshold) at clock t
isTokenExpired(token, expirationThreshold, t) ==
    LET expiration == jwtExpiration(token) IN
    IF expiration.err # "none" THEN [err |-> expiration.err, val |-> FALSE]
    ELSE [err |-> "none", val |-> expiration.exp - expirationThreshold < t]

\* jwtValid: catches JWTInvalid only, any other error is rethrown
jwtValid(token, t) ==
    LET expired == isTokenExpired(token, 0, t) IN
    IF expired.err = "JWTInvalid" THEN [err |-> "none", val |-> FALSE]
    ELSE IF expired.err # "none" THEN [err |-> expired.err, val |-> FALSE]
    ELSE [err |-> "none", val |-> ~expired.val]

\* ------------------------------------------------------------------ models
\* kind "object" is a principal, "null" is null, "nonobject" any other value
\* that is not an object (a string, a number); collectionId "" is absent.
NullModel == [kind |-> "null", id |-> "", collectionId |-> ""]
NonObjectModel == [kind |-> "nonobject", id |-> "", collectionId |-> ""]
Ids == {"a", "b"}
CollectionIds == {"", "c1"}
Principal(i, c) == [kind |-> "object", id |-> i, collectionId |-> c]
Principals == {Principal(i, c) : i \in Ids, c \in CollectionIds}
Models == Principals \cup {NullModel, NonObjectModel}


\* ------------------------------------------------------------ state record
\* The handlers below are functions of the whole program state.  lastCall
\* tells what the step that led to a state did to the store: the last store
\* call of the step, what it threw and the callbacks it invoked.
NoCall == [op |-> "none", threw |-> "none", notified |-> <<>>]
St ==
    [reqs |-> reqs, cc |-> cancelControllers, eac |-> enableAutoCancellation,
     bs |-> beforeSend, as |-> afterSend, token |-> baseToken, model |-> baseModel,
     cbs |-> onChangeCallbacks, binding |-> binding, now |-> now, last |-> NoCall,
     rt |-> [rt EXCEPT !.delivered = {}, !.event = <<>>, !.handler = ""],
     removers |-> removers, persistence |-> persistence]

Apply(next) ==
    \E s \in {next} :
        /\ reqs' = s.reqs
        /\ cancelControllers' = s.cc
        /\ enableAutoCancellation' = s.eac
        /\ beforeSend' = s.bs
        /\ afterSend' = s.as
        /\ baseToken' = s.token
        /\ baseModel' = s.model
        /\ onChangeCallbacks' = s.cbs
        /\ binding' = s.binding
        /\ now' = s.now
        /\ lastCall' = s.last
        /\ rt' = s.rt
        /\ removers' = s.removers
        /\ persistence' = s.persistence

\* ------------------------------------------------------- auto-refresh reset
\* client._resetAutoRefresh is undefined
NoBinding ==
    [id |-> 0, threshold |-> 0, creds |-> "", oldBeforeSend |-> "none", oldModel |-> NullModel]

\* a registered change callback: a listener of the application, or the
\* listener that registerAutoRefresh installed for the binding with this id
UserListener(n) == [kind |-> "user", id |-> n, oldModel |-> NullModel]
\* a listener of the application that calls the function onChange returned
\* for it when it is invoked
OnceListener(n) == [kind |-> "once", id |-> n, oldModel |-> NullModel]
RefreshListener(b) == [kind |-> "ar", id |-> b.id, oldModel |-> b.oldModel]
\* a listener of the application that throws when it is invoked
ThrowingListener(n) == [kind |-> "throws", id |-> n, oldModel |-> NullModel]

\* the function returned by onChange: removes the last entry equal to callback
unsubscribe(callbacks, callback) ==
    LET found == {i \in 1..Len(callbacks) : callbacks[i] = callback} IN
    IF found = {} THEN callbacks
    ELSE LET last == CHOOSE i \in found : \A j \in found : j <= i IN
         SubSeq(callbacks, 1, last - 1) \o SubSeq(callbacks, last + 1, Len(callbacks))

\* a reset that unsubscribes but leaves client.beforeSend as it is
resetAutoRefreshKeepsHook(s) ==
    IF s.binding = NoBinding THEN s
    ELSE [s EXCEPT !.cbs = unsubscribe(s.cbs, RefreshListener(s.binding)),
                   !.binding = NoBinding]

\* resetAutoRefresh(client): client._resetAutoRefresh?.()
resetAutoRefresh(s) ==
    IF s.binding = NoBinding THEN s
    ELSE [s EXCEPT !.cbs = unsubscribe(s.cbs, RefreshListener(s.binding)),
                   !.bs = s.binding.oldBeforeSend,
                   !.binding = NoBinding]

\* a listener condition that compares the ids only
identityChangedIgnoresCollection(newToken, model, oldModel) ==
    \/ newToken.kind = "empty"
    \/ model.id # oldModel.id

\* the condition of the onChange listener of registerAutoRefresh
identityChanged(newToken, model, oldModel) ==
    \/ newToken.kind = "empty"
    \/ model.id # oldModel.id
    \/ /\ (model.collectionId # "" \/ oldModel.collectionId # "")
       /\ model.collectionId # oldModel.collectionId

\* one callback of the store being invoked with (token, model); s.last.threw
\* tells what the callback threw
invokeCallback(s, cb) ==
    LET noted == [s EXCEPT !.last.notified = Append(s.last.notified, cb)] IN
    IF cb.kind = "ar" /\ identityChanged(s.token, s.model, cb.oldModel)
    THEN resetAutoRefresh(noted)
    ELSE IF cb.kind = "once"
    THEN [noted EXCEPT !.cbs = unsubscribe(noted.cbs, cb)]
    ELSE IF cb.kind = "throws"
    THEN [noted EXCEPT !.last.threw = "Error"]
    ELSE noted

\* triggerChange: for (const callback of this._onChangeCallbacks), over the
\* live array, so a callback that unregisters shifts the ones behind it; what
\* a callback throws ends the loop and is thrown by triggerChange
RECURSIVE triggerFrom(_, _)
triggerFrom(s, i) ==
    IF i > Len(s.cbs) \/ s.last.threw # "none" THEN s
    ELSE triggerFrom(invokeCallback(s, s.cbs[i]), i + 1)

triggerChange(s) == triggerFrom(s, 1)

\* ------------------------------------------------------------ BaseAuthStore
called(s, op, threw) ==
    [s EXCEPT !.last = [op |-> op, threw |-> threw, notified |-> <<>>]]

\* a save that assigns the token before it looks at the model
saveAssignsFirst(s, token, model) ==
    LET valid == jwtValid(token, s.now) IN
    IF valid.err # "none" THEN called(s, "save", valid.err)
    ELSE IF ~valid.val THEN called(s, "save", "JWTInvalid")
    ELSE IF model.kind # "object" THEN [called(s, "save", "Error") EXCEPT !.token = token]
    ELSE triggerChange([called(s, "save", "none") EXCEPT !.token = token, !.model = model])

\* save(token, model); s.last.threw tells what it threw
save(s, token, model) ==
    LET valid == jwtValid(token, s.now) IN
    IF valid.err # "none" THEN called(s, "save", valid.err)
    ELSE IF ~valid.val THEN called(s, "save", "JWTInvalid")
    ELSE IF model.kind # "object" THEN called(s, "save", "Error")
    ELSE triggerChange([called(s, "save", "none") EXCEPT !.token = token, !.model = model])

\* a clear that empties the token only
clearKeepsModel(s) ==
    triggerChange([called(s, "clear", "none") EXCEPT !.token = EmptyToken])

clear(s) ==
    triggerChange([called(s, "clear", "none") EXCEPT !.token = EmptyToken, !.model = NullModel])

\* a loadFromCookie without the try / catch around save
loadFromCookieNoCatch(s, isAuth, token, model) ==
    IF ~isAuth THEN clear(s) ELSE save(s, token, model)

\* loadFromCookie(cookie): isAuth tells whether the value of the cookie passes
\* isAuthCookie, token and model are what it then holds
loadFromCookie(s, isAuth, token, model) ==
    IF ~isAuth THEN clear(s)
    ELSE LET saved == save(s, token, model) IN
         IF saved.last.threw # "none" THEN clear(saved) ELSE saved

\* get isValid()
isValid(s) == jwtValid(s.token, s.now)

\* onChange(callback): this._onChangeCallbacks.push(callback)
onChange(s, cb) == [s EXCEPT !.cbs = Append(s.cbs, cb)]

\* registerAutoRefresh(client, threshold, refreshFunc, reauthenticateFunc);
\* id names the registration, creds the credentials reauthenticateFunc holds
registerAutoRefresh(s, threshold, creds, id) ==
    LET s1 == resetAutoRefresh(s)
        b == [id |-> id, threshold |-> threshold, creds |-> creds,
              oldBeforeSend |-> s1.bs, oldModel |-> s1.model]
    IN [onChange(s1, RefreshListener(b)) EXCEPT !.binding = b, !.bs = "wrapper"]

\* ------------------------------------------------------------- Client.send
RefreshPath == "/api/admins/auth-refresh"
AuthPath == "/api/admins/auth-with-password"
CustomPaths == {"/p1"}
\* the requestKey option: not given, null, or a string
Unset == "<unset>"
Null == "<null>"
RequestKeys == {Unset, Null, "", "k1"}
\* subscription keys: a topic, optionally followed by "?" and the serialized
\* options; strings are sequences of characters so that prefixes are computed
\* the collections of the record services: the name of the second starts with
\* the name of the first; the keys of their "*" topic
RecordCollections == {<<"p">>, <<"p", "2">>}
recordTopic(collectionIdOrName, topic) == collectionIdOrName \o <<"/">> \o topic
RecordKeys == {recordTopic(c, <<"*">>) : c \in RecordCollections}
RtKeys == {<<"a">>, <<"a", "?", "o">>, <<"b">>} \cup RecordKeys
NoSubscriptions == [k \in RtKeys |-> [has |-> FALSE, ls |-> <<>>]]
\* the fields of a RealtimeService after construction, with
\*   attached     the (key, listener) pairs added to the current EventSource
\*   open         the EventSource objects created and not closed
\*   acked        the current EventSource has delivered its PB_CONNECT event
\*   transports   how many EventSource objects were created so far
\*   server       the subscriptions the server holds for the open connection
\*   calls        the subscribe / unsubscribe calls made, and how they settled
\*   delivered    the listeners invoked by the last step, in order (observation)
\*   event        the key of the event delivered by the last step (observation)
\*   handler      "onerror" / "timeout" when the last step ran the error handler
\*                of the EventSource / the connect timeout (observation)
RtInit ==
    [clientId |-> 0, eventSource |-> 0, open |-> {}, attached |-> {}, acked |-> FALSE,
     subscriptions |-> NoSubscriptions, lastSentSubscriptions |-> {},
     connectTimeoutId |-> FALSE, reconnectTimeoutId |-> FALSE,
     reconnectAttempts |-> 0, pendingConnects |-> <<>>,
     transports |-> 0, server |-> {}, calls |-> <<>>, delivered |-> {},
     event |-> <<>>, handler |-> ""]

\* the legacy query flags $cancelKey (a string or not given) and $autoCancel
CancelKeys == {Unset, "k1"}
\* getSubscriptionsCancelKey(): "realtime_" + clientId; the clientId of a
\* session is modelled by the number of the transport that announced it
getSubscriptionsCancelKey(clientId) == "realtime_" \o ToString(clientId)
Keys ==
    {"k1"} \cup {"GET" \o p : p \in CustomPaths} \cup {"POST" \o RefreshPath, "POST" \o AuthPath}
        \cup {getSubscriptionsCancelKey(n) : n \in 0..MaxConnects}

\* the Authorization header of a request: not set, or a value of the caller
\* that is no token of the store, or a token
NoHeader == [kind |-> "unset", exp |-> 0]
CustomAuthorization == [kind |-> "custom", exp |-> 0]

\* what a request of submitSubscriptions() carries and who awaits it:
\*   clientId, subscriptions   the body of the POST
\*   owner                     the call that awaits it (0 = the PB_CONNECT handler)
\*   retries                   the retries left in the loop of the PB_CONNECT handler
\*   processed                 the server has applied the body
NoCtl == [clientId |-> 0, subscriptions |-> {}, owner |-> 0, retries |-> 0, processed |-> FALSE]

\* a send() call.  kind: "custom" a plain request, "auth" authWithPassword
\* called by the application, "refresh" / "reauth" the refreshFunc /
\* reauthenticateFunc call of the auto-refresh wrapper.
\*   signal, aborted  options.signal: set by initSendOptions, aborted by the
\*                    controller that the registry holds for the request
\*   pc               where send() is suspended: "hook" await beforeSend,
\*                    "fetch" await fetchFunc, "json" await response.json(),
\*                    "after" await afterSend, "done" settled
\*   hstage           what the pending beforeSend awaits: "user" the hook of
\*                    the application, "refresh" refreshFunc, "reauth"
\*                    reauthenticateFunc
\*   result           how send() settled; svc how the service call around it did
\*   marker           the autoRefresh flag in the query
\*   parent           the request whose wrapper awaits this call (0 = none)
\*   old, creds       closure of the wrapper: oldBeforeSend, credentials
\*   threshold        autoRefreshThreshold of an authWithPassword call
\*   authorization    the Authorization header of options.headers
\*   oldToken         closure of the wrapper: the token of the store at its start
NewReq(kind, marker, parent, creds, threshold) ==
    [kind |-> kind, signal |-> FALSE, aborted |-> FALSE,
     pc |-> "hook", hstage |-> "none", result |-> "none", svc |-> "none",
     marker |-> marker, parent |-> parent, old |-> "none", creds |-> creds,
     threshold |-> threshold, ctl |-> NoCtl,
     authorization |-> NoHeader, oldToken |-> EmptyToken]

\* a registry entry whose request has settled and is no longer recorded in reqs
Settled == 0 - 1

\* Once every recorded send() has settled the record is dropped: a settled
\* request acts on nothing any more.  The entries that the registry still
\* holds for the dropped requests stay, as Settled.
forget(s) ==
    IF \A i \in DOMAIN s.reqs : s.reqs[i].pc = "done"
    THEN [s EXCEPT !.reqs = <<>>,
                   !.cc = [k \in Keys |-> IF s.cc[k] = 0 THEN 0 ELSE Settled]]
    ELSE s

\* controller.abort(): the signal of a send() that has settled is read by
\* nobody, so only the signal of a pending send() is recorded
abort(r) == IF r.pc = "done" THEN r ELSE [r EXCEPT !.aborted = TRUE]
\* the options handed to fetchFunc carry the signal of the controller, and the
\* controller was aborted: fetchFunc sees the abort
seesAbort(r) == r.signal /\ r.aborted

\* cancelRequest(requestKey)
cancelRequest(s, requestKey) ==
    IF s.cc[requestKey] = 0 THEN s
    ELSE IF s.cc[requestKey] = Settled THEN [s EXCEPT !.cc[requestKey] = 0]
    ELSE [s EXCEPT !.reqs[s.cc[requestKey]] = abort(s.reqs[s.cc[requestKey]]),
                   !.cc[requestKey] = 0]

\* cancelAllRequests()
cancelAllRequests(s) ==
    LET ids == {s.cc[k] : k \in Keys} \ {0, Settled} IN
    [s EXCEPT !.reqs = [i \in DOMAIN s.reqs |->
                            IF i \in ids THEN abort(s.reqs[i]) ELSE s.reqs[i]],
              !.cc = [k \in Keys |-> 0]]

\* the requestKey normalisation of initSendOptions
normalizedRequestKey(requestKey, cancelKey, autoCancel) ==
    IF requestKey # Unset THEN requestKey
    ELSE IF ~autoCancel THEN Null
    ELSE IF cancelKey # Unset /\ cancelKey # "" THEN cancelKey
    ELSE Unset

\* initSendOptions, the Authorization part: the token of the store is added
\* when the store holds one and the caller set no Authorization header
withAuthorization(s, req) ==
    IF s.token # EmptyToken /\ req.authorization = NoHeader
    THEN [req EXCEPT !.authorization = s.token]
    ELSE req

\* initSendOptions that registers the new controller over the previous one
\* without cancelling it
initSendOptionsKeepsPrevious(s, req, method, path, requestKey) ==
    LET id == Len(s.reqs) + 1 IN
    IF s.eac /\ requestKey # Null
    THEN LET key == IF requestKey \in {Unset, ""} THEN method \o path ELSE requestKey
         IN [s EXCEPT !.reqs = Append(s.reqs, [withAuthorization(s, req) EXCEPT !.signal = TRUE]),
                      !.cc[key] = id]
    ELSE [s EXCEPT !.reqs = Append(s.reqs, withAuthorization(s, req))]

\* initSendOptions, the Authorization and the auto-cancellation part: appends
\* the request and registers its AbortController
initSendOptions(s, req, method, path, requestKey) ==
    LET id == Len(s.reqs) + 1 IN
    IF s.eac /\ requestKey # Null
    THEN LET key == IF requestKey \in {Unset, ""} THEN method \o path ELSE requestKey
             s1 == cancelRequest(s, key)
         IN [s1 EXCEPT !.reqs = Append(s1.reqs, [withAuthorization(s, req) EXCEPT !.signal = TRUE]),
                       !.cc[key] = id]
    ELSE [s EXCEPT !.reqs = Append(s.reqs, withAuthorization(s, req))]

\* send() from the end of beforeSend to await fetchFunc(url, options)
callFetch(s, id) ==
    [s EXCEPT !.reqs[id].pc = "fetch", !.reqs[id].hstage = "none"]

\* a beforeSend that is not the wrapper: none, or the hook of the application
plainHook(s, id, hook) ==
    IF hook = "user" THEN [s EXCEPT !.reqs[id].pc = "hook", !.reqs[id].hstage = "user"]
    ELSE callFetch(s, id)

\* the wrapper called for a request that carries the autoRefresh flag, or the
\* hook that is installed when there is no wrapper
markedHook(s, id) ==
    IF s.bs = "wrapper" THEN plainHook(s, id, s.binding.oldBeforeSend)
    ELSE plainHook(s, id, s.bs)

\* refreshFunc(): authRefresh({ autoRefresh: true }) up to its await of send()
startRefresh(s, id) ==
    LET nid == Len(s.reqs) + 1
        s1 == initSendOptions(s, NewReq("refresh", TRUE, id, "", 0), "POST", RefreshPath, Unset)
    IN [markedHook(s1, nid) EXCEPT !.reqs[id].hstage = "refresh"]

\* reauthenticateFunc(): authWithPassword(email, password, { autoRefresh: true,
\* ...options }) up to its await of send(); options.autoRefreshThreshold was
\* deleted by the call that registered, so the call resets the binding
startReauth(s, id) ==
    LET s1 == resetAutoRefresh(s)
        nid == Len(s1.reqs) + 1
        s2 == initSendOptions(s1, NewReq("reauth", TRUE, id, s.reqs[id].creds, 0),
                              "POST", AuthPath, Unset)
    IN [markedHook(s2, nid) EXCEPT !.reqs[id].hstage = "reauth"]

\* the loop of the wrapper over the headers: an Authorization header that is
\* the token captured at the start is set to the token of the store, when the
\* store holds one
latestToken(s, id) ==
    LET r == s.reqs[id] IN
    IF r.authorization # NoHeader /\ r.oldToken = r.authorization /\ s.token # EmptyToken
    THEN [s EXCEPT !.reqs[id].authorization = s.token]
    ELSE s

\* a wrapper that leaves the headers as they were
wrapperTailKeepsHeader(s, id) == plainHook(s, id, s.reqs[id].old)

\* the wrapper after its refresh / reauthentication step: set the latest token
\* and delegate to oldBeforeSend
wrapperTail(s, id) == plainHook(latestToken(s, id), id, s.reqs[id].old)

\* a wrapper that refreshes every valid token, whatever the threshold
wrapperHookAlwaysRefreshes(s, id) ==
    LET b == s.binding
        valid == isValid(s)
        s1 == [s EXCEPT !.reqs[id].old = b.oldBeforeSend, !.reqs[id].creds = b.creds,
                        !.reqs[id].oldToken = s.token]
    IN IF s.reqs[id].marker THEN plainHook(s, id, b.oldBeforeSend)
       ELSE IF valid.val THEN startRefresh(s1, id)
       ELSE startReauth(s1, id)

\* client.beforeSend of registerAutoRefresh, called by send() for request id
wrapperHook(s, id) ==
    LET b == s.binding
        valid == isValid(s)
        s1 == [s EXCEPT !.reqs[id].old = b.oldBeforeSend, !.reqs[id].creds = b.creds,
                        !.reqs[id].oldToken = s.token]
    IN IF s.reqs[id].marker THEN plainHook(s, id, b.oldBeforeSend)
       ELSE IF /\ valid.val
               /\ ~isTokenExpired(s.token, 0, s.now).val
               /\ isTokenExpired(s.token, b.threshold, s.now).val
            THEN startRefresh(s1, id)
       ELSE IF ~valid.val THEN startReauth(s1, id)
       ELSE wrapperTail(s1, id)

\* send(path, options) up to its first await
send(s, req, method, path, requestKey) ==
    LET id == Len(s.reqs) + 1
        s1 == initSendOptions(s, req, method, path, requestKey)
    IN IF s1.bs = "wrapper" THEN wrapperHook(s1, id) ELSE plainHook(s1, id, s1.bs)

\* what the server answered to an auth call: token and admin of the body
\* (EmptyToken / NullModel when the body lacks the field)
NoBody == [token |-> EmptyToken, admin |-> NullModel]
ServerAdmins == {NullModel, Principal("a", ""), Principal("b", ""), Principal("a", "c1")}
Bodies == {[token |-> t, admin |-> a] : t \in {EmptyToken} \cup {Jwt(e) : e \in Exps},
                                         a \in ServerAdmins}

\* send() of request id settles with res, and the service method that awaited
\* it runs to its end: authRefresh saves, authWithPassword runs authResponse
\* and registers the auto refresh
settle(s, id, res, body) ==
    LET r == s.reqs[id]
        s1 == [s EXCEPT !.reqs[id].pc = "done", !.reqs[id].hstage = "none",
                        !.reqs[id].result = res]
        failed == [s1 EXCEPT !.reqs[id].svc = "fail"]
    IN IF res # "ok" THEN failed
       ELSE IF r.kind = "custom" THEN [s1 EXCEPT !.reqs[id].svc = "ok"]
       ELSE IF r.kind = "refresh"
            THEN LET s2 == save(s1, body.token, body.admin) IN
                 [s2 EXCEPT !.reqs[id].svc = IF s2.last.threw = "none" THEN "ok" ELSE "fail"]
       ELSE LET saves == body.token.kind # "empty" /\ body.admin.kind = "object"
                s2 == IF saves THEN save(s1, body.token, body.admin) ELSE s1
            IN IF saves /\ s2.last.threw # "none" THEN [s2 EXCEPT !.reqs[id].svc = "fail"]
               ELSE IF r.threshold > 0
                    THEN [registerAutoRefresh(s2, r.threshold, r.creds, id)
                             EXCEPT !.reqs[id].svc = "ok"]
               ELSE [s2 EXCEPT !.reqs[id].svc = "ok"]

\* a wrapper without the try / catch around refreshFunc
resumePropagatesRefreshFailure(s, p, ok) ==
    IF ok THEN wrapperTail(s, p) ELSE settle(s, p, "hook", NoBody)

\* a wrapper that catches the error of reauthenticateFunc as well
resumeSwallowsReauthFailure(s, p, ok) ==
    IF s.reqs[p].hstage = "refresh"
    THEN IF ok THEN wrapperTail(s, p) ELSE startReauth(s, p)
    ELSE wrapperTail(s, p)

\* the wrapper of request p continues after refreshFunc / reauthenticateFunc
resume(s, p, ok) ==
    IF s.reqs[p].hstage = "refresh"
    THEN IF ok THEN wrapperTail(s, p) ELSE startReauth(s, p)
    ELSE IF ok THEN wrapperTail(s, p) ELSE settle(s, p, "hook", NoBody)

\* request id settles; the wrapper that awaited it, if any, continues
complete(s, id, res, body) ==
    LET s1 == settle(s, id, res, body)
        p == s.reqs[id].parent
    IN IF p = 0 THEN s1 ELSE resume(s1, p, s1.reqs[id].svc = "ok")

\* an AsyncAuthStore constructed without a clear function and not yet called
NoPersistence == [clearFunc |-> FALSE, calls |-> <<>>]

\* ------------------------------------------------------------------ actions
\* the state a call of the application starts from
Fresh == forget(St)
\* the calls of the application that have not returned
Pending(s) == {i \in DOMAIN s.reqs : s.reqs[i].parent = 0 /\ s.reqs[i].pc # "done"}

Init ==
    /\ reqs = <<>>
    /\ cancelControllers = [k \in Keys |-> 0]
    /\ enableAutoCancellation = TRUE
    /\ beforeSend = "none"
    /\ afterSend = "none"
    /\ baseToken = EmptyToken
    /\ baseModel = NullModel
    /\ onChangeCallbacks = <<>>
    /\ binding = NoBinding
    /\ now = 0
    /\ lastCall = NoCall
    /\ rt = RtInit
    /\ removers = <<>>
    /\ persistence = NoPersistence

\* the application calls client.send(path, options)
SendCustom ==
    \E path \in CustomPaths, requestKey \in RequestKeys, cancelKey \in CancelKeys,
       autoCancel \in BOOLEAN :
        /\ Len(Fresh.reqs) < MaxSends
        /\ Apply(send(Fresh, NewReq("custom", FALSE, 0, "", 0), "GET", path,
                  normalizedRequestKey(requestKey, cancelKey, autoCancel)))

\* client.autoCancellation(enable)
AutoCancellation ==
    \E enable \in BOOLEAN :
        /\ enable # enableAutoCancellation
        /\ Apply([St EXCEPT !.eac = enable])

\* client.cancelRequest(key)
CancelRequest ==
    \E key \in Keys :
        /\ cancelControllers[key] # 0
        /\ Apply(cancelRequest(St, key))

\* client.cancelAllRequests()
CancelAllRequests ==
    /\ \E key \in Keys : cancelControllers[key] # 0
    /\ Apply(cancelAllRequests(St))

\* the application assigns client.beforeSend / client.afterSend
SetBeforeSend ==
    \E hook \in {"none", "user"} :
        /\ hook # beforeSend
        /\ Apply([St EXCEPT !.bs = hook])

SetAfterSend ==
    \E hook \in {"none", "user"} :
        /\ hook # afterSend
        /\ Apply([St EXCEPT !.as = hook])

\* the beforeSend hook of the application resolves / rejects
HookResolve ==
    \E id \in DOMAIN reqs :
        /\ reqs[id].pc = "hook" /\ reqs[id].hstage = "user"
        /\ Apply(callFetch(St, id))

HookReject ==
    \E id \in DOMAIN reqs :
        /\ reqs[id].pc = "hook" /\ reqs[id].hstage = "user"
        /\ Apply(complete(St, id, "hook", NoBody))

\* fetchFunc resolves with a response: status 204 returns {} at once, any
\* other status goes on to await response.json()
FetchResolve ==
    \E id \in DOMAIN reqs, noContent \in BOOLEAN :
        /\ reqs[id].pc = "fetch" /\ ~seesAbort(reqs[id])
        /\ noContent => reqs[id].kind = "custom"
        /\ IF noContent THEN Apply(complete(St, id, "ok", NoBody))
           ELSE Apply([St EXCEPT !.reqs[id].pc = "json"])

\* fetchFunc rejects: the transport failed
FetchReject ==
    \E id \in DOMAIN reqs :
        /\ reqs[id].pc = "fetch" /\ ~seesAbort(reqs[id])
        /\ Apply(complete(St, id, "net", NoBody))

\* the signal handed to fetchFunc is aborted: fetchFunc, or the read of the
\* body, rejects with the AbortError
FetchAbort ==
    \E id \in DOMAIN reqs :
        /\ reqs[id].pc \in {"fetch", "json"} /\ seesAbort(reqs[id])
        /\ Apply(complete(St, id, "abort", NoBody))

\* response.json() resolves; a response of status >= 400 (the status came
\* with the response, nothing reads it before this point) throws the
\* ClientResponseError
JsonResolve ==
    \E id \in DOMAIN reqs, body \in Bodies, status \in {200, 400} :
        /\ reqs[id].pc = "json" /\ ~seesAbort(reqs[id])
        /\ reqs[id].kind = "custom" => body = NoBody
        /\ status >= 400 => body = NoBody
        /\ IF status >= 400 THEN Apply(complete(St, id, "cre", NoBody))
           ELSE IF afterSend = "user"
                THEN body = NoBody /\ Apply([St EXCEPT !.reqs[id].pc = "after"])
           ELSE Apply(complete(St, id, "ok", body))

\* response.json() rejects: the body is not JSON
JsonReject ==
    \E id \in DOMAIN reqs :
        /\ reqs[id].pc = "json" /\ ~seesAbort(reqs[id])
        /\ Apply(complete(St, id, "json", NoBody))

\* the afterSend hook of the application resolves with the data / rejects
AfterResolve ==
    \E id \in DOMAIN reqs, body \in Bodies :
        /\ reqs[id].pc = "after"
        /\ reqs[id].kind = "custom" => body = NoBody
        /\ Apply(complete(St, id, "ok", body))

AfterReject ==
    \E id \in DOMAIN reqs :
        /\ reqs[id].pc = "after"
        /\ Apply(complete(St, id, "after", NoBody))

\* the request pipeline alone: no authentication, no auto refresh
NextSend ==
    \/ SendCustom
    \/ AutoCancellation
    \/ CancelRequest
    \/ CancelAllRequests
    \/ SetBeforeSend
    \/ SetAfterSend
    \/ HookResolve
    \/ HookReject
    \/ FetchResolve
    \/ FetchReject
    \/ FetchAbort
    \/ JsonResolve
    \/ JsonReject
    \/ AfterResolve
    \/ AfterReject

SpecSend == Init /\ [][NextSend]_vars

\* the request pipeline where nobody calls cancelRequest / cancelAllRequests:
\* every abort is an auto-cancellation
NextAuto ==
    \/ SendCustom
    \/ AutoCancellation
    \/ SetBeforeSend
    \/ SetAfterSend
    \/ HookResolve
    \/ HookReject
    \/ FetchResolve
    \/ FetchReject
    \/ FetchAbort
    \/ JsonResolve
    \/ JsonReject
    \/ AfterResolve
    \/ AfterReject

SpecAuto == Init /\ [][NextAuto]_vars

\* ------------------------------------------------- authentication, refresh
Credentials == {"alice", "bob"}

\* authWithPassword(email, password, { autoRefreshThreshold }) up to its await
authWithPassword(s, creds, threshold) ==
    LET s1 == IF threshold = 0 THEN resetAutoRefresh(s) ELSE s IN
    send(s1, NewReq("auth", FALSE, 0, creds, threshold), "POST", AuthPath, Unset)

\* the application calls client.admins.authWithPassword
AuthWithPassword ==
    \E creds \in Credentials, threshold \in {0, Threshold} :
        /\ Pending(St) = {}
        /\ Apply(authWithPassword(Fresh, creds, threshold))

\* the application calls client.send(path, {})
SendPlain ==
    \E path \in CustomPaths, requestKey \in {Unset} :
        /\ Pending(St) = {}
        /\ Apply(send(Fresh, NewReq("custom", FALSE, 0, "", 0), "GET", path, requestKey))

\* resetAutoRefresh(client) called from outside
ResetAutoRefresh ==
    /\ binding # NoBinding
    /\ Apply(resetAutoRefresh(St))

\* the application calls client.authStore.clear()
StoreClear ==
    /\ baseToken # EmptyToken
    /\ Apply(clear(St))

\* time passes
Tick ==
    /\ now < MaxTime
    /\ Apply([St EXCEPT !.now = now + 1])

NextRefresh ==
    \/ AuthWithPassword
    \/ SendPlain
    \/ ResetAutoRefresh
    \/ StoreClear
    \/ Tick
    \/ SetBeforeSend
    \/ HookResolve
    \/ HookReject
    \/ FetchResolve
    \/ FetchReject
    \/ FetchAbort
    \/ JsonResolve

SpecRefresh == Init /\ [][NextRefresh]_vars

\* ------------------------------------------------------ what send() throws
\* The value a send() rejects with, by how it settled: "cre" is the
\* ClientResponseError thrown for status >= 400; "abort" is the AbortError
\* (a DOMException) of fetchFunc, "net" / "json" the error of fetchFunc /
\* response.json(), "hook" / "after" the error of beforeSend / afterSend,
\* all rethrown as they are since send() has no catch.
Thrown(result) ==
    IF result = "cre" THEN [normalized |-> TRUE, isAbort |-> FALSE]
    ELSE [normalized |-> FALSE, isAbort |-> FALSE]

\* the phases of send() up to the end of the read of the response body
Transport == {"hook", "fetch", "json"}
\* the pending requests, and the request that the step issued (0 = none)
InFlight == {i \in DOMAIN reqs : reqs[i].pc # "done"}
Issued == IF Len(reqs') = Len(forget(St).reqs) + 1 THEN Len(reqs') ELSE 0

C1Step ==
    \A i \in InFlight :
        \* aborted only by the request that takes over its key
        /\ (~reqs[i].aborted /\ reqs'[i].aborted)
              => \E k \in Keys : cancelControllers[k] = i /\ Issued # 0
                                   /\ cancelControllers'[k] = Issued
        \* a request that loses its key is aborted, the one that took it is not
        /\ (\E k \in Keys : cancelControllers[k] = i /\ cancelControllers'[k] # i)
              => reqs'[i].aborted /\ Issued # 0 /\ ~reqs'[Issued].aborted
        \* an aborted request whose body was not read yet does not succeed
        /\ (reqs[i].aborted /\ reqs[i].pc \in Transport)
              => \/ reqs'[i].pc \in Transport
                 \/ reqs'[i].pc = "done" /\ reqs'[i].result # "ok"

C2_CancelledIsAbort ==
    \A i \in DOMAIN reqs :
        (reqs[i].aborted /\ reqs[i].pc = "done")
            => /\ reqs[i].result # "ok"
               /\ Thrown(reqs[i].result).normalized
               /\ Thrown(reqs[i].result).isAbort

\* C3: every failure of send() has the normalized error shape.
C3_FailuresNormalized ==
    \A i \in DOMAIN reqs :
        (reqs[i].pc = "done" /\ reqs[i].result # "ok") => Thrown(reqs[i].result).normalized

\* C4: a completed send() has no entry left in the registry, so the registry
\* is empty whenever no request is in flight.
C4_CompletedRemoved ==
    /\ \A i \in DOMAIN reqs : reqs[i].pc = "done" => \A k \in Keys : cancelControllers[k] # i
    /\ (\A i \in DOMAIN reqs : reqs[i].pc = "done") => \A k \in Keys : cancelControllers[k] = 0

\* ------------------------------------------------- claims on the auto refresh
\* Under SpecRefresh the application awaits each call before the next one, so
\* the request that a call issues is request 1 of the record.
NewCall == Pending(St) = {} /\ reqs' # reqs
\* the call goes through the wrapper: the wrapper is client.beforeSend, and
\* the call is not an authWithPassword that resets the binding first
Intercepted ==
    /\ NewCall
    /\ beforeSend = "wrapper"
    /\ ~(reqs'[1].kind = "auth" /\ reqs'[1].threshold = 0)
\* the calls of one kind that the wrapper of request p made
Children(rs, p, kind) == {i \in DOMAIN rs : rs[i].parent = p /\ rs[i].kind = kind}
\* request i settles in this step
Settles(i) == reqs[i].pc # "done" /\ reqs'[i].pc = "done"
\* the stored token is a token that has not expired
StoreValid == baseToken.kind = "jwt" /\ now <= baseToken.exp
\* ... and expires within the threshold of the binding
InWindow == StoreValid /\ baseToken.exp - now < binding.threshold

\* C5: a request that goes through the wrapper issues exactly one refresh call
\* when the stored token is valid, not expired and expires within the
\* threshold, and none otherwise; no refresh call is issued at any other
\* time, and a refresh call carries the autoRefresh flag and is not
\* intercepted (the wrapper makes no call on its behalf).
C5Step ==
    /\ NewCall =>
          Cardinality(Children(reqs', 1, "refresh")) = IF Intercepted /\ InWindow THEN 1 ELSE 0
    /\ ~NewCall =>
          \A i \in DOMAIN reqs' : reqs'[i].kind = "refresh" => i \in DOMAIN reqs
    /\ \A i \in DOMAIN reqs' :
          reqs'[i].kind = "refresh"
              => /\ reqs'[i].marker
                 /\ reqs'[i].parent = 1
                 /\ \A j \in DOMAIN reqs' : reqs'[j].parent # i

C6Step ==
    /\ NewCall =>
          /\ Cardinality(Children(reqs', 1, "reauth"))
                = IF Intercepted /\ ~StoreValid THEN 1 ELSE 0
          /\ Intercepted => reqs'[1].creds = binding.creds
    /\ ~NewCall =>
          \A p \in DOMAIN reqs :
              LET failed == \E i \in Children(reqs, p, "refresh") :
                                Settles(i) /\ reqs'[i].svc # "ok"
                  new == Children(reqs', p, "reauth") \ Children(reqs, p, "reauth")
              IN /\ Cardinality(new) = IF failed THEN 1 ELSE 0
                 /\ failed => reqs'[p].pc = "hook"
    /\ \A i \in DOMAIN reqs' :
          reqs'[i].kind = "reauth"
              => /\ reqs'[i].creds = reqs'[reqs'[i].parent].creds
                 /\ Cardinality(Children(reqs', reqs'[i].parent, "reauth")) = 1
    /\ \A i \in DOMAIN reqs :
          (reqs[i].kind = "reauth" /\ Settles(i) /\ reqs'[i].svc = "ok")
              => LET p == reqs[i].parent IN
                 \/ reqs'[p].pc = "fetch"
                 \/ reqs'[p].pc = "hook" /\ reqs'[p].hstage = "user"

C6_ReauthWhenInvalid == [][C6Step]_vars

\* witness of C6: the refresh call of a request failed, its reauthentication
\* succeeded and the request was dispatched
C6_Witness ==
    \E i, j \in DOMAIN reqs :
        /\ reqs[i].kind = "refresh" /\ reqs[i].svc = "fail"
        /\ reqs[j].kind = "reauth" /\ reqs[j].svc = "ok"
        /\ reqs[j].parent = reqs[i].parent
        /\ reqs[reqs[i].parent].pc = "fetch"

\* C7: when the reauthentication of a request fails, the request, which was
\* still in its beforeSend, fails with the error of the hook and never
\* reaches fetchFunc.
C7Step ==
    \A i \in DOMAIN reqs :
        (reqs[i].kind = "reauth" /\ Settles(i) /\ reqs'[i].svc # "ok")
            => LET p == reqs[i].parent IN
               /\ reqs[p].pc = "hook"
               /\ reqs'[p].pc = "done"
               /\ reqs'[p].result = "hook"

C7_ReauthFailurePropagates == [][C7Step]_vars

\* witness of C7: a reauthentication failed and its request failed in the hook
C7_Witness ==
    \E i \in DOMAIN reqs :
        /\ reqs[i].kind = "reauth" /\ reqs[i].svc = "fail"
        /\ reqs[reqs[i].parent].pc = "done"
        /\ reqs[reqs[i].parent].result = "hook"

\* the callbacks that the store call of the step invoked
Notified == {lastCall'.notified[i] : i \in DOMAIN lastCall'.notified}
\* the store changed in this step: a save or a clear that did not throw
StoreChanged == lastCall'.op \in {"save", "clear"} /\ lastCall'.threw = "none"
\* the step ends an authWithPassword that registers a binding of its own
Registers == \E i \in DOMAIN reqs : Settles(i) /\ reqs[i].kind = "auth" /\ reqs[i].threshold > 0
\* the listeners of registerAutoRefresh among the callbacks of the store
RefreshListeners(callbacks) == {i \in DOMAIN callbacks : callbacks[i].kind = "ar"}

\* C8: a change of the store while a binding is installed notifies the
\* listener of the binding, and the binding is uninstalled exactly when the
\* new token is empty, or the id of the new model differs from the id
\* captured at install, or one of the two has a collectionId and the
\* collectionIds differ; otherwise the binding stays as it is.
C8Step ==
    (StoreChanged /\ binding # NoBinding /\ ~Registers)
        => LET old == binding.oldModel
               differs ==
                   \/ baseToken' = EmptyToken
                   \/ baseModel'.id # old.id
                   \/ /\ (baseModel'.collectionId # "" \/ old.collectionId # "")
                      /\ baseModel'.collectionId # old.collectionId
           IN /\ RefreshListener(binding) \in Notified
              /\ differs => binding' = NoBinding
              /\ ~differs => binding' = binding

C8_UninstalledOnIdentityChange == [][C8Step]_vars

\* witness of C8: a refresh saved the token of the same identity and the
\* binding, whose listener was notified, is still installed
C8_Witness ==
    /\ lastCall.op = "save" /\ lastCall.threw = "none"
    /\ binding # NoBinding
    /\ \E i \in DOMAIN lastCall.notified : lastCall.notified[i] = RefreshListener(binding)
    /\ \E i \in DOMAIN reqs : reqs[i].kind = "refresh" /\ reqs[i].svc = "ok"

\* C9: whenever an installed binding goes away, client.beforeSend is the hook
\* captured at install and no listener of registerAutoRefresh is left; when a
\* new binding takes its place, the new one captured that hook and has the
\* only listener; and a request issued while no binding is installed makes no
\* refresh and no reauthentication call, at issue or later.
C9Step ==
    /\ (binding # NoBinding /\ binding' = NoBinding)
          => /\ beforeSend' = binding.oldBeforeSend
             /\ RefreshListeners(onChangeCallbacks') = {}
    /\ (binding # NoBinding /\ binding' # NoBinding /\ binding' # binding)
          => /\ binding'.oldBeforeSend = binding.oldBeforeSend
             /\ beforeSend' = "wrapper"
             /\ Cardinality(RefreshListeners(onChangeCallbacks')) = 1
             /\ \A i \in RefreshListeners(onChangeCallbacks') :
                    onChangeCallbacks'[i] = RefreshListener(binding')
    /\ (NewCall /\ binding = NoBinding) => Len(reqs') = 1
    /\ (~NewCall /\ Len(reqs) = 1) => Len(reqs') = 1

C9_ResetRestores == [][C9Step]_vars

\* witness of C9: a refresh call was made once (the registry still has its
\* key), the binding is gone, and a request issued with an invalid store is
\* dispatched without any call on its behalf
C9_Witness ==
    /\ cancelControllers["POST" \o RefreshPath] = Settled
    /\ binding = NoBinding /\ beforeSend # "wrapper"
    /\ ~isValid(St).val
    /\ Len(reqs) = 1 /\ reqs[1].kind = "custom" /\ reqs[1].pc = "fetch"

\* ----------------------------------------------------- the auth store alone
Listeners == {"l1", "l2"}

\* the application calls authStore.save(token, model)
StoreSave ==
    \E token \in Tokens, model \in Models :
        Apply(save(St, token, model))

\* the application calls authStore.onChange(callback)
OnChange ==
    \E n \in Listeners :
        /\ Len(onChangeCallbacks) < MaxListeners
        /\ Apply(onChange(St, UserListener(n)))

\* the application calls the function that onChange returned
Unsubscribe ==
    \E i \in DOMAIN onChangeCallbacks :
        Apply([St EXCEPT !.cbs = unsubscribe(onChangeCallbacks, onChangeCallbacks[i])])

NextStore ==
    \/ StoreSave
    \/ StoreClear
    \/ OnChange
    \/ Unsubscribe
    \/ Tick

SpecStore == Init /\ [][NextStore]_vars

\* C10: a save that throws leaves token, model and the callbacks as they
\* were and invokes no callback; and every save that does not throw stored a
\* token that decodes and has not expired together with a model that is an
\* object, so a save of an expired or unparseable token, or of a model that
\* is null or not an object, throws.
C10Step ==
    /\ (lastCall'.op = "save" /\ lastCall'.threw # "none")
          => /\ baseToken' = baseToken
             /\ baseModel' = baseModel
             /\ onChangeCallbacks' = onChangeCallbacks
             /\ lastCall'.notified = <<>>
    /\ (lastCall'.op = "save" /\ lastCall'.threw = "none")
          => /\ baseToken'.kind = "jwt" /\ now <= baseToken'.exp
             /\ baseModel'.kind = "object"
             /\ lastCall'.notified = onChangeCallbacks

C10_RejectedSaveUnchanged == [][C10Step]_vars

\* witness of C10: a save was rejected on a store that holds a token and has
\* a callback registered
C10_Witness ==
    /\ lastCall.op = "save" /\ lastCall.threw # "none"
    /\ baseToken # EmptyToken
    /\ onChangeCallbacks # <<>>

\* ------------------------- the auth store with listeners that unregister
\* the application registers a callback that unregisters itself when invoked
OnChangeOnce ==
    \E n \in Listeners :
        /\ Len(onChangeCallbacks) < MaxListeners
        /\ Apply(onChange(St, OnceListener(n)))

\* the application calls authStore.loadFromCookie(cookie)
LoadFromCookie ==
    \E isAuth \in BOOLEAN, token \in Tokens, model \in Principals \cup {NullModel} :
        /\ ~isAuth => (token = EmptyToken /\ model = NullModel)
        /\ Apply(loadFromCookie(St, isAuth, token, model))

NextListeners ==
    \/ StoreSave
    \/ StoreClear
    \/ OnChange
    \/ OnChangeOnce
    \/ Unsubscribe
    \/ LoadFromCookie
    \/ Tick

SpecListeners == Init /\ [][NextListeners]_vars

\* C11: every save that does not throw and every clear invokes the callbacks
\* registered at the moment of the call, each registration once and in
\* registration order, also when a callback unregisters during the delivery.
C11Step ==
    (lastCall'.op \in {"save", "clear"} /\ lastCall'.threw = "none")
        => lastCall'.notified = onChangeCallbacks

C11_EachListenerNotified == [][C11Step]_vars

\* C12: the model of the store is null exactly when its token is empty.
C12_NullIffEmpty ==
    /\ baseModel.kind \in {"null", "object"}
    /\ baseModel.kind = "null" <=> baseToken.kind = "empty"

\* witness of C12: a save went through on a store with callbacks, and the
\* store holds a token and a model
C12_Witness ==
    /\ lastCall.op = "save" /\ lastCall.threw = "none"
    /\ baseToken.kind = "jwt" /\ baseModel.kind = "object"
    /\ lastCall.notified # <<>>

\* ------------------------------------------------------- RealtimeService
RealtimePath == "/api/realtime"
\* the retries of the resubmission loop of the PB_CONNECT handler
ConnectRetries == 3

\* String.prototype.startsWith and includes
startsWith(str, prefix) ==
    Len(prefix) <= Len(str) /\ SubSeq(str, 1, Len(prefix)) = prefix
includes(str, ch) == \E i \in DOMAIN str : str[i] = ch

\* get isConnected
isConnected(s) ==
    s.rt.eventSource # 0 /\ s.rt.clientId # 0 /\ s.rt.pendingConnects = <<>>

\* hasSubscriptionListeners(keyToCheck)
hasKeyListeners(s, key) ==
    s.rt.subscriptions[key].has /\ Len(s.rt.subscriptions[key].ls) > 0
\* hasSubscriptionListeners()
hasSubscriptionListeners(s) ==
    \E k \in RtKeys : s.rt.subscriptions[k].has /\ Len(s.rt.subscriptions[k].ls) > 0

\* getSubscriptionsByTopic(topic): the keys of the registry that are the
\* topic, or the topic followed by options
getSubscriptionsByTopic(s, topic) ==
    LET t == IF includes(topic, "?") THEN topic ELSE topic \o <<"?">> IN
    {k \in RtKeys : s.rt.subscriptions[k].has /\ startsWith(k \o <<"?">>, t)}

\* getNonEmptySubscriptionKeys()
getNonEmptySubscriptionKeys(s) == {k \in RtKeys : hasKeyListeners(s, k)}

\* the (key, listener) pairs of the registry
registered(s) ==
    UNION {{<<k, s.rt.subscriptions[k].ls[i]>> : i \in DOMAIN s.rt.subscriptions[k].ls} :
              k \in {q \in RtKeys : s.rt.subscriptions[q].has}}

\* removeAllSubscriptionListeners()
removeAllSubscriptionListeners(s) ==
    IF s.rt.eventSource = 0 THEN s
    ELSE [s EXCEPT !.rt.attached = s.rt.attached \ registered(s)]

\* addAllSubscriptionListeners()
addAllSubscriptionListeners(s) ==
    IF s.rt.eventSource = 0 THEN s
    ELSE [s EXCEPT !.rt.attached = s.rt.attached \cup registered(s)]

\* a promise of the calls in ids is settled: a subscribe call that awaited
\* connect() or submitSubscriptions() returns its handle or throws, an
\* unsubscribe call returns or throws
settleCalls(s, ids, status) ==
    [s EXCEPT !.rt.calls = [i \in DOMAIN s.rt.calls |->
        IF i \in ids THEN [s.rt.calls[i] EXCEPT !.status = status] ELSE s.rt.calls[i]]]

waiters(s) == {s.rt.pendingConnects[i] : i \in DOMAIN s.rt.pendingConnects}

\* a disconnect that leaves the reconnect timer armed
disconnectKeepsTimer(s, fromReconnect) ==
    LET s1 == removeAllSubscriptionListeners([s EXCEPT !.rt.connectTimeoutId = FALSE])
        s2 == cancelRequest(s1, getSubscriptionsCancelKey(s1.rt.clientId))
        s3 == [s2 EXCEPT !.rt.eventSource = 0, !.rt.open = s2.rt.open \ {s2.rt.eventSource},
                         !.rt.attached = {}, !.rt.acked = FALSE,
                         !.rt.server = {}, !.rt.clientId = 0]
    IN IF fromReconnect THEN s3
       ELSE [settleCalls(s3, waiters(s3), "ok") EXCEPT
                !.rt.reconnectAttempts = 0, !.rt.pendingConnects = <<>>]

\* disconnect(fromReconnect)
disconnect(s, fromReconnect) ==
    LET s1 == removeAllSubscriptionListeners(
                  [s EXCEPT !.rt.connectTimeoutId = FALSE, !.rt.reconnectTimeoutId = FALSE])
        s2 == cancelRequest(s1, getSubscriptionsCancelKey(s1.rt.clientId))
        s3 == [s2 EXCEPT !.rt.eventSource = 0, !.rt.open = s2.rt.open \ {s2.rt.eventSource},
                         !.rt.attached = {}, !.rt.acked = FALSE,
                         !.rt.server = {}, !.rt.clientId = 0]
    IN IF fromReconnect THEN s3
       ELSE [settleCalls(s3, waiters(s3), "ok") EXCEPT
                !.rt.reconnectAttempts = 0, !.rt.pendingConnects = <<>>]

\* initConnect() up to the creation of the EventSource
initConnect(s) ==
    LET s1 == disconnect(s, TRUE) IN
    [s1 EXCEPT !.rt.connectTimeoutId = TRUE,
               !.rt.transports = s1.rt.transports + 1,
               !.rt.eventSource = s1.rt.transports + 1,
               !.rt.open = s1.rt.open \cup {s1.rt.transports + 1}]

\* a connectErrorHandler that schedules a reconnect after every error
connectErrorHandlerAlwaysRetries(s) ==
    LET s1 == [s EXCEPT !.rt.connectTimeoutId = FALSE, !.rt.reconnectTimeoutId = FALSE] IN
    [disconnect(s1, TRUE) EXCEPT !.rt.reconnectAttempts = s1.rt.reconnectAttempts + 1,
                                 !.rt.reconnectTimeoutId = TRUE]

\* connectErrorHandler(err)
connectErrorHandler(s) ==
    LET s1 == [s EXCEPT !.rt.connectTimeoutId = FALSE, !.rt.reconnectTimeoutId = FALSE] IN
    IF s1.rt.clientId = 0 /\ s1.rt.reconnectAttempts = 0
    THEN disconnect([settleCalls(s1, waiters(s1), "cre") EXCEPT !.rt.pendingConnects = <<>>],
                    FALSE)
    ELSE [disconnect(s1, TRUE) EXCEPT !.rt.reconnectAttempts = s1.rt.reconnectAttempts + 1,
                                      !.rt.reconnectTimeoutId = TRUE]

\* connect() called by call id: the call is settled at once when a reconnect
\* is scheduled, else it waits in pendingConnects
connect(s, id) ==
    IF s.rt.reconnectAttempts > 0 THEN settleCalls(s, {id}, "ok")
    ELSE LET s1 == [s EXCEPT !.rt.pendingConnects = Append(s.rt.pendingConnects, id)] IN
         IF Len(s1.rt.pendingConnects) > 1 THEN s1 ELSE initConnect(s1)

\* submitSubscriptions() with a clientId, up to the await of send()
postSubscriptions(s, owner, retries) ==
    LET s1 == addAllSubscriptionListeners(s)
        s2 == [s1 EXCEPT !.rt.lastSentSubscriptions = getNonEmptySubscriptionKeys(s1)]
        req == [NewReq("custom", FALSE, 0, "", 0) EXCEPT
                   !.ctl = [clientId |-> s2.rt.clientId,
                            subscriptions |-> s2.rt.lastSentSubscriptions,
                            owner |-> owner, retries |-> retries, processed |-> FALSE]]
    IN send(s2, req, "POST", RealtimePath, getSubscriptionsCancelKey(s2.rt.clientId))

\* submitSubscriptions() awaited by call id
submitSubscriptions(s, id) ==
    IF s.rt.clientId = 0 THEN settleCalls(s, {id}, "ok") ELSE postSubscriptions(s, id, 0)

\* hasUnsentSubscriptions()
hasUnsentSubscriptions(s) ==
    getNonEmptySubscriptionKeys(s) # s.rt.lastSentSubscriptions

\* the last then() of the PB_CONNECT handler
connected(s) ==
    [settleCalls(s, waiters(s), "ok") EXCEPT
        !.rt.pendingConnects = <<>>, !.rt.reconnectAttempts = 0,
        !.rt.reconnectTimeoutId = FALSE, !.rt.connectTimeoutId = FALSE]

\* a PB_CONNECT handler without the resubmission loop
resubmitNever(s, retries) == connected(s)

\* the resubmission loop of the PB_CONNECT handler with retries left
resubmit(s, retries) ==
    IF hasUnsentSubscriptions(s) /\ retries > 0 /\ s.rt.clientId # 0
    THEN postSubscriptions(s, 0, retries - 1)
    ELSE connected(s)

\* the catch() of the PB_CONNECT handler
connectFailed(s) == connectErrorHandler([s EXCEPT !.rt.clientId = 0])

\* the catch() of submitSubscriptions: TRUE when the call completes normally
submitCatch(res) == res = "ok" \/ Thrown(res).isAbort

\* the send() of a request that no hook and no service method awaits returns
\* or throws
returned(s, id, res) ==
    [s EXCEPT !.reqs[id].pc = "done", !.reqs[id].hstage = "none",
              !.reqs[id].result = res, !.reqs[id].svc = IF res = "ok" THEN "ok" ELSE "fail"]

\* the send() of a submitSubscriptions settles with res, and what awaited it
\* continues
submitted(s, id, res) ==
    LET owner == s.reqs[id].ctl.owner
        s1 == returned(s, id, res)
    IN IF owner # 0 THEN settleCalls(s1, {owner}, IF submitCatch(res) THEN "ok" ELSE res)
       ELSE IF submitCatch(res) THEN resubmit(s1, s.reqs[id].ctl.retries)
       ELSE connectFailed(s1)

\* the key of subscribe(topic, callback, options): the topic, followed by "?"
\* and the serialized options when there are options
subscriptionKey(topic, options) ==
    IF options = <<>> THEN topic
    ELSE topic \o (IF includes(topic, "?") THEN <<"&">> ELSE <<"?">>) \o options

\* a call of the application starts
newCall(s, op, topic, key, listener) ==
    [s EXCEPT !.rt.calls = Append(s.rt.calls,
        [op |-> op, topic |-> topic, key |-> key, listener |-> listener,
         status |-> "pending"])]

\* a subscribe that submits the subscriptions whenever it is connected
subscribeAlwaysSubmits(s, topic, options) ==
    LET id == Len(s.rt.calls) + 1
        key == subscriptionKey(topic, options)
        s1 == [newCall(s, "subscribe", topic, key, id) EXCEPT
                 !.rt.subscriptions[key] =
                     [has |-> TRUE, ls |-> Append(s.rt.subscriptions[key].ls, id)]]
    IN IF ~isConnected(s1) THEN connect(s1, id)
       ELSE submitSubscriptions(s1, id)

\* subscribe(topic, callback, options) up to its await; the listener that
\* wraps the callback is identified by the number of the call
subscribe(s, topic, options) ==
    LET id == Len(s.rt.calls) + 1
        key == subscriptionKey(topic, options)
        s1 == [newCall(s, "subscribe", topic, key, id) EXCEPT
                 !.rt.subscriptions[key] =
                     [has |-> TRUE, ls |-> Append(s.rt.subscriptions[key].ls, id)]]
    IN IF ~isConnected(s1) THEN connect(s1, id)
       ELSE IF Len(s1.rt.subscriptions[key].ls) = 1 THEN submitSubscriptions(s1, id)
       ELSE settleCalls([s1 EXCEPT !.rt.attached = s1.rt.attached \cup {<<key, id>>}],
                        {id}, "ok")

\* the listeners of the keys in keys are removed from the EventSource and the
\* keys are deleted from the registry
deleteKeys(s, keys) ==
    [s EXCEPT
       !.rt.attached = IF s.rt.eventSource = 0 THEN s.rt.attached
                       ELSE {p \in s.rt.attached : ~(p[1] \in keys /\ p \in registered(s))},
       !.rt.subscriptions = [k \in RtKeys |->
           IF k \in keys THEN [has |-> FALSE, ls |-> <<>>] ELSE s.rt.subscriptions[k]]]

\* an end of the unsubscribe methods that submits and never disconnects
afterUnsubscribeOnlySubmits(s, id, needToSubmit) ==
    IF needToSubmit THEN submitSubscriptions(s, id) ELSE settleCalls(s, {id}, "ok")

\* the end of the unsubscribe methods: disconnect when no listener is left,
\* else submit the change when there is one
afterUnsubscribe(s, id, needToSubmit) ==
    IF ~hasSubscriptionListeners(s) THEN settleCalls(disconnect(s, FALSE), {id}, "ok")
    ELSE IF needToSubmit THEN submitSubscriptions(s, id)
    ELSE settleCalls(s, {id}, "ok")

\* unsubscribe(topic); the empty topic stands for no topic
unsubscribe_(s, topic) ==
    LET id == Len(s.rt.calls) + 1
        s1 == newCall(s, "unsubscribe", topic, <<>>, 0)
        keys == {k \in getSubscriptionsByTopic(s1, topic) : hasKeyListeners(s1, k)}
    IN IF topic = <<>>
       THEN afterUnsubscribe([s1 EXCEPT !.rt.subscriptions = NoSubscriptions], id, FALSE)
       ELSE afterUnsubscribe(deleteKeys(s1, keys), id, keys # {})

\* unsubscribeByPrefix(keyPrefix)
unsubscribeByPrefix(s, keyPrefix) ==
    LET id == Len(s.rt.calls) + 1
        s1 == newCall(s, "unsubscribeByPrefix", keyPrefix, <<>>, 0)
        keys == {k \in RtKeys : s1.rt.subscriptions[k].has /\ startsWith(k \o <<"?">>, keyPrefix)}
        s2 == deleteKeys(s1, keys)
    IN IF keys = {} THEN settleCalls(s1, {id}, "ok")
       ELSE IF hasSubscriptionListeners(s2) THEN submitSubscriptions(s2, id)
       ELSE settleCalls(disconnect(s2, FALSE), {id}, "ok")

\* an unsubscribeByTopicAndListener that deletes the whole key of the listener
unsubscribeDeletesKey(s, topic, listener) ==
    LET id == Len(s.rt.calls) + 1
        s1 == newCall(s, "unsubscribeByTopicAndListener", topic, <<>>, listener)
        keys == {k \in getSubscriptionsByTopic(s1, topic) :
                    \E i \in DOMAIN s1.rt.subscriptions[k].ls : s1.rt.subscriptions[k].ls[i] = listener}
    IN afterUnsubscribe(deleteKeys(s1, keys), id, keys # {})

\* an unsubscribeByTopicAndListener that leaves the key of the last listener
\* in the registry
unsubscribeKeepsEmptyKey(s, topic, listener) ==
    LET id == Len(s.rt.calls) + 1
        s1 == newCall(s, "unsubscribeByTopicAndListener", topic, <<>>, listener)
        keys == {k \in getSubscriptionsByTopic(s1, topic) :
                    \E i \in DOMAIN s1.rt.subscriptions[k].ls : s1.rt.subscriptions[k].ls[i] = listener}
        rest(k) == SelectSeq(s1.rt.subscriptions[k].ls, LAMBDA l : l # listener)
        s2 == [s1 EXCEPT
                 !.rt.attached = IF s1.rt.eventSource = 0 THEN s1.rt.attached
                                 ELSE {p \in s1.rt.attached : ~(p[1] \in keys /\ p[2] = listener)},
                 !.rt.subscriptions = [k \in RtKeys |->
                     IF k \notin keys THEN s1.rt.subscriptions[k]
                     ELSE [has |-> TRUE, ls |-> rest(k)]]]
    IN afterUnsubscribe(s2, id, \E k \in keys : ~hasKeyListeners(s2, k))

\* unsubscribeByTopicAndListener(topic, listener)
unsubscribeByTopicAndListener(s, topic, listener) ==
    LET id == Len(s.rt.calls) + 1
        s1 == newCall(s, "unsubscribeByTopicAndListener", topic, <<>>, listener)
        keys == {k \in getSubscriptionsByTopic(s1, topic) :
                    \E i \in DOMAIN s1.rt.subscriptions[k].ls : s1.rt.subscriptions[k].ls[i] = listener}
        rest(k) == SelectSeq(s1.rt.subscriptions[k].ls, LAMBDA l : l # listener)
        s2 == [s1 EXCEPT
                 !.rt.attached = IF s1.rt.eventSource = 0 THEN s1.rt.attached
                                 ELSE {p \in s1.rt.attached : ~(p[1] \in keys /\ p[2] = listener)},
                 !.rt.subscriptions = [k \in RtKeys |->
                     IF k \notin keys THEN s1.rt.subscriptions[k]
                     ELSE IF rest(k) = <<>> THEN [has |-> FALSE, ls |-> <<>>]
                     ELSE [has |-> TRUE, ls |-> rest(k)]]]
    IN afterUnsubscribe(s2, id, \E k \in keys : ~hasKeyListeners(s2, k))

\* ---- the steps of the realtime service
RtTopics == {<<"a">>, <<"b">>}
RtOptions == {<<>>, <<"o">>}
RtPrefixes == {<<"a">>, <<"b">>}

\* the calls of the application are bounded, and so are the transports
MayCall == Len(rt.calls) < MaxOps
MayConnect(s) == s.rt.transports <= MaxConnects

Subscribe ==
    \E topic \in RtTopics, options \in RtOptions :
        /\ MayCall
        /\ subscriptionKey(topic, options) \in RtKeys
        /\ MayConnect(subscribe(Fresh, topic, options))
        /\ Apply(subscribe(Fresh, topic, options))

RtUnsubscribe ==
    \E topic \in RtTopics \cup {<<>>} :
        /\ MayCall
        /\ Apply(unsubscribe_(Fresh, topic))

UnsubscribeByPrefix ==
    \E keyPrefix \in RtPrefixes :
        /\ MayCall
        /\ Apply(unsubscribeByPrefix(Fresh, keyPrefix))

\* the application invokes the handle that a subscribe call returned
UnsubscribeHandle ==
    \E c \in DOMAIN rt.calls :
        /\ MayCall
        /\ rt.calls[c].op = "subscribe" /\ rt.calls[c].status = "ok"
        /\ Apply(unsubscribeByTopicAndListener(Fresh, rt.calls[c].topic, c))

\* the EventSource delivers the PB_CONNECT event: the handler stores the
\* clientId and submits the subscriptions
PbConnect ==
    /\ rt.eventSource # 0 /\ ~rt.acked
    /\ Apply(postSubscriptions([St EXCEPT !.rt.acked = TRUE, !.rt.clientId = rt.eventSource],
                               0, ConnectRetries))

\* eventSource.onerror
TransportError ==
    /\ rt.eventSource # 0
    /\ Apply(connectErrorHandler([St EXCEPT !.rt.handler = "onerror"]))

\* the connect timeout fires
ConnectTimeout ==
    /\ rt.connectTimeoutId
    /\ Apply(connectErrorHandler([St EXCEPT !.rt.handler = "timeout"]))

\* the reconnect timeout fires
ReconnectTimeout ==
    /\ rt.reconnectTimeoutId
    /\ rt.transports < MaxConnects
    /\ Apply(initConnect([St EXCEPT !.rt.reconnectTimeoutId = FALSE]))

IsSubmit(r) == r.ctl.clientId # 0

\* the server applies the body of a subscriptions request that reached it
ServerSets ==
    \E id \in DOMAIN reqs :
        /\ IsSubmit(reqs[id]) /\ reqs[id].pc = "fetch" /\ ~reqs[id].aborted
        /\ ~reqs[id].ctl.processed
        /\ reqs[id].ctl.clientId = rt.eventSource
        /\ Apply([St EXCEPT !.reqs[id].ctl.processed = TRUE,
                            !.rt.server = reqs[id].ctl.subscriptions])

\* the 204 response of a subscriptions request arrives
SubmitResolve ==
    \E id \in DOMAIN reqs :
        /\ IsSubmit(reqs[id]) /\ reqs[id].pc = "fetch" /\ ~reqs[id].aborted
        /\ reqs[id].ctl.processed
        /\ Apply(submitted(St, id, "ok"))

\* the fetch of a subscriptions request fails
SubmitReject ==
    \E id \in DOMAIN reqs :
        /\ IsSubmit(reqs[id]) /\ reqs[id].pc = "fetch" /\ ~reqs[id].aborted
        /\ Apply(submitted(St, id, "net"))

\* the fetch of a cancelled subscriptions request rejects
SubmitAbort ==
    \E id \in DOMAIN reqs :
        /\ IsSubmit(reqs[id]) /\ reqs[id].pc = "fetch" /\ reqs[id].aborted
        /\ Apply(submitted(St, id, "abort"))

\* the server sends an event of a key it holds for the connection, and the
\* EventSource invokes the listeners added for the key
ServerEvent ==
    \E key \in rt.server :
        /\ rt.eventSource # 0
        /\ Apply([St EXCEPT !.rt.event = key,
                            !.rt.delivered = {p[2] : p \in {q \in rt.attached : q[1] = key}}])

NextRealtime ==
    \/ Subscribe
    \/ RtUnsubscribe
    \/ UnsubscribeByPrefix
    \/ UnsubscribeHandle
    \/ PbConnect
    \/ TransportError
    \/ ConnectTimeout
    \/ ReconnectTimeout
    \/ ServerSets
    \/ SubmitResolve
    \/ SubmitReject
    \/ SubmitAbort
    \/ ServerEvent

SpecRealtime == Init /\ [][NextRealtime]_vars

\* the listeners of a key whose subscribe call has returned its handle
Subscribed(key) ==
    {rt.subscriptions[key].ls[i] : i \in DOMAIN rt.subscriptions[key].ls}
        \cap {c \in DOMAIN rt.calls : rt.calls[c].status = "ok"}

\* C13: an event that the server emits for a key is delivered once to every
\* callback subscribed to the key, also after the handle of another callback
\* of the key was invoked.
C13Step ==
    rt'.event # <<>> => Subscribed(rt'.event) \subseteq rt'.delivered

C13_EachSubscriberReceives == [][C13Step]_vars

\* the call that the step starts, if it starts one
Started(op) ==
    /\ Len(rt'.calls) = Len(rt.calls) + 1
    /\ rt'.calls[Len(rt'.calls)].op = op

\* the listeners of a key without the listener l
Without(ls, l) == SelectSeq(ls, LAMBDA x : x # l)

\* C14: invoking the handle of a subscribe call removes the listener of that
\* call from the registry and no other listener, of the same key or of another
\* key; when the listener is no longer registered, nothing is removed.
C14Step ==
    Started("unsubscribeByTopicAndListener") =>
        \A k \in RtKeys :
            rt'.subscriptions[k].ls =
                IF k = rt.calls[rt'.calls[Len(rt'.calls)].listener].key
                THEN Without(rt.subscriptions[k].ls, rt'.calls[Len(rt'.calls)].listener)
                ELSE rt.subscriptions[k].ls

C14_HandleRemovesOwnListener == [][C14Step]_vars

\* witness of C14: two callbacks were subscribed to one key, the handle of
\* the first was invoked, and the second is still registered
C14_Witness ==
    /\ Len(rt.calls) = 3
    /\ rt.calls[1].op = "subscribe" /\ rt.calls[2].op = "subscribe"
    /\ rt.calls[1].key = rt.calls[2].key
    /\ rt.calls[3].op = "unsubscribeByTopicAndListener" /\ rt.calls[3].listener = 1
    /\ rt.subscriptions[rt.calls[1].key].ls = <<2>>

\* the calls have stopped and nothing is outstanding on an acknowledged
\* connection
Quiet ==
    /\ isConnected(St)
    /\ \A c \in DOMAIN rt.calls : rt.calls[c].status # "pending"
    /\ \A i \in DOMAIN reqs : reqs[i].pc = "done"

SettledWaiters == {c \in waiters(St) : rt'.calls[c].status # "pending"}

\* the subscription requests that settle in the step
Answered == {i \in DOMAIN reqs : i \in DOMAIN reqs' /\ reqs[i].pc # "done" /\ reqs'[i].pc = "done"}

\* C16: a subscribe made while a connection attempt is outstanding starts no
\* other attempt and queues its waiter; at most one EventSource is open at any
\* time; the waiters are settled all together, with one outcome, and when a
\* request settles them it is a request of the attempt they wait for.
C16Step ==
    /\ (Started("subscribe") /\ rt.pendingConnects # <<>>)
           => /\ rt'.transports = rt.transports
              /\ rt.reconnectAttempts = 0
                     => rt'.pendingConnects = Append(rt.pendingConnects, Len(rt'.calls))
    /\ Cardinality(rt'.open) <= 1
    /\ SettledWaiters # {}
           => /\ SettledWaiters = waiters(St)
              /\ rt'.pendingConnects = <<>>
              /\ \A c, d \in SettledWaiters : rt'.calls[c].status = rt'.calls[d].status
              /\ \A i \in Answered : reqs[i].ctl.clientId = rt.eventSource

C16_ConnectCoalesced == [][C16Step]_vars

\* no transport, no session and no timer
Disconnected(r) ==
    /\ r.eventSource = 0 /\ r.open = {} /\ r.clientId = 0
    /\ ~r.connectTimeoutId /\ ~r.reconnectTimeoutId

\* C17: when the EventSource reports an error, or the connect timeout fires,
\* on an attempt that has delivered no PB_CONNECT and is not a reconnect, every
\* waiter of pendingConnects is rejected with a ClientResponseError, the queue
\* is emptied and the channel is disconnected with no timer armed.
C17Step ==
    (rt'.handler \in {"onerror", "timeout"} /\ ~rt.acked /\ rt.reconnectAttempts = 0)
        => /\ \A c \in waiters(St) :
                  rt'.calls[c].status # "ok" /\ Thrown(rt'.calls[c].status).normalized
           /\ rt'.pendingConnects = <<>>
           /\ Disconnected(rt')

C17_FirstAttemptErrorRejects == [][C17Step]_vars

\* witness of C17: the error handler of the EventSource has just rejected
\* two queued waiters
C17_Witness ==
    /\ rt.handler = "onerror" /\ rt.reconnectAttempts = 0 /\ rt.transports = 1
    /\ Len(rt.calls) = 2
    /\ \A c \in DOMAIN rt.calls : rt.calls[c].op = "subscribe" /\ rt.calls[c].status = "cre"
    /\ Disconnected(rt)

\* C18: disconnect(), called in any state of the service and not from a
\* reconnect, resolves every waiter of pendingConnects, empties the queue,
\* closes the EventSource, clears the clientId and both timers, and leaves the
\* registry of subscriptions as it is.
C18_DisconnectResolvesWaiters ==
    LET d == disconnect(St, FALSE) IN
    /\ \A c \in waiters(St) : d.rt.calls[c].status = "ok"
    /\ \A c \in DOMAIN rt.calls \ waiters(St) : d.rt.calls[c] = rt.calls[c]
    /\ d.rt.pendingConnects = <<>>
    /\ Disconnected(d.rt)
    /\ d.rt.subscriptions = rt.subscriptions

\* witness of C18: a subscribe was waiting for the connection, no PB_CONNECT
\* had arrived, and an unsubscribe of everything disconnected: the subscribe
\* call has returned
C18_Witness ==
    /\ Len(rt.calls) = 2
    /\ rt.calls[1].op = "subscribe" /\ rt.calls[1].status = "ok"
    /\ rt.calls[2].op = "unsubscribe" /\ rt.calls[2].status = "ok"
    /\ rt.transports = 1 /\ reqs = <<>>
    /\ \A k \in Keys : cancelControllers[k] = 0
    /\ Disconnected(rt)

UnsubscribeOps == {"unsubscribe", "unsubscribeByPrefix", "unsubscribeByTopicAndListener"}
RegistryEmpty(r) == \A k \in RtKeys : ~r.subscriptions[k].has

\* C19: after an unsubscribe call (by topic, by prefix, by handle or of
\* everything) that leaves the registry empty there is no EventSource, no
\* clientId and no armed timer; and in every state where the registry is empty
\* no EventSource is open and no reconnect is scheduled.
C19Step ==
    /\ (\E op \in UnsubscribeOps : Started(op)) /\ RegistryEmpty(rt') => Disconnected(rt')
    /\ RegistryEmpty(rt') => (rt'.open = {} /\ ~rt'.reconnectTimeoutId)

C19_EmptyRegistryDisconnected == [][C19Step]_vars

\* witness of C19: a subscribe was made and the connection was acknowledged,
\* then an unsubscribe by prefix emptied the registry
C19_Witness ==
    /\ Len(rt.calls) >= 2
    /\ rt.calls[1].op = "subscribe"
    /\ rt.calls[Len(rt.calls)].op = "unsubscribeByPrefix"
    /\ rt.calls[Len(rt.calls)].status = "ok"
    /\ \E k \in Keys : cancelControllers[k] # 0
    /\ RegistryEmpty(rt)
    /\ Disconnected(rt)

\* the subscription requests awaited by a call that were cancelled by a later
\* subscription request of the same session
Superseded ==
    {i \in DOMAIN reqs :
        /\ IsSubmit(reqs[i]) /\ reqs[i].aborted /\ reqs[i].ctl.owner # 0
        /\ \E j \in DOMAIN reqs :
               j > i /\ IsSubmit(reqs[j]) /\ reqs[j].ctl.clientId = reqs[i].ctl.clientId}

\* C20: when the subscriptions request of a subscribe or unsubscribe call was
\* cancelled by a later subscriptions request and its send() rejects, the call
\* completes without an error.
C20Step ==
    \A i \in Answered \cap Superseded : rt'.calls[reqs[i].ctl.owner].status = "ok"

C20_SupersededSwallowed == [][C20Step]_vars

\* ---- the last-sent snapshot
\* the subscriptions requests that the server accepts in the step
Accepted ==
    {i \in DOMAIN reqs : /\ IsSubmit(reqs[i]) /\ ~reqs[i].ctl.processed
                         /\ i \in DOMAIN reqs' /\ reqs'[i].ctl.processed}

\* C21: lastSentSubscriptions is the key set of the most recent subscriptions
\* request that the server accepted: it changes only in a step in which the
\* server accepts a request, and then to the keys of that request; sending a
\* request, and a request that fails or is cancelled, leave it as it was.
C21Step ==
    /\ rt'.lastSentSubscriptions # rt.lastSentSubscriptions => Accepted # {}
    /\ \A i \in Accepted : rt'.lastSentSubscriptions = reqs[i].ctl.subscriptions

C21_LastSentIsAccepted == [][C21Step]_vars

\* ---- the registry
\* C22: no key of the subscriptions registry maps to an empty list of
\* listeners.
C22_NoEmptyKey ==
    \A k \in RtKeys : rt.subscriptions[k].has => Len(rt.subscriptions[k].ls) > 0

\* the handle of the only listener of a key was invoked while another key has
\* listeners: the key is gone from the registry
C22_Witness ==
    /\ rt.calls # <<>>
    /\ LET c == rt.calls[Len(rt.calls)] IN
         /\ c.op = "unsubscribeByTopicAndListener"
         /\ ~rt.subscriptions[rt.calls[c.listener].key].has
    /\ ~RegistryEmpty(rt)

\* ------------------------------ the auth store with listeners that throw
\* the application registers a callback that throws when it is invoked
OnChangeThrowing ==
    \E n \in Listeners :
        /\ Len(onChangeCallbacks) < MaxListeners
        /\ Apply(onChange(St, ThrowingListener(n)))

NextThrowing ==
    \/ StoreSave
    \/ StoreClear
    \/ OnChange
    \/ OnChangeThrowing
    \/ Unsubscribe
    \/ LoadFromCookie
    \/ Tick

SpecThrowing == Init /\ [][NextThrowing]_vars

\* C23: when a save or a clear notifies the callbacks and one of them throws,
\* the callbacks registered after it are invoked all the same: every
\* registered callback is notified of the change.
C23Step ==
    (lastCall'.op \in {"save", "clear"} /\ lastCall'.notified # <<>>)
        => lastCall'.notified = onChangeCallbacks

C23_ThrowingListenerSkipsNone == [][C23Step]_vars

\* ------------------------- the auth store with the functions onChange returns
\* the most calls of one removal function
MaxRemovals == 2

\* the application calls authStore.onChange(callback) and keeps the function
\* it returns; calls counts the calls of that function
OnChangeKeep ==
    \E n \in Listeners :
        /\ Len(onChangeCallbacks) < MaxListeners
        /\ Len(removers) < MaxHandles
        /\ Apply([onChange(St, UserListener(n)) EXCEPT
                     !.removers = Append(removers, [callback |-> UserListener(n), calls |-> 0])])

\* the application calls a function that onChange returned
Remove ==
    \E h \in DOMAIN removers :
        /\ removers[h].calls < MaxRemovals
        /\ Apply([St EXCEPT !.cbs = unsubscribe(onChangeCallbacks, removers[h].callback),
                            !.removers[h].calls = removers[h].calls + 1])

NextRemovers ==
    \/ StoreSave
    \/ StoreClear
    \/ OnChangeKeep
    \/ Remove
    \/ Tick

SpecRemovers == Init /\ [][NextRemovers]_vars

\* callbacks without one entry that is the callback
WithoutOne(callbacks, callback) ==
    {SubSeq(callbacks, 1, i - 1) \o SubSeq(callbacks, i + 1, Len(callbacks)) :
        i \in {j \in DOMAIN callbacks : callbacks[j] = callback}}

\* C24: the first call of a function that onChange returned removes one
\* registration of its callback and nothing else, and every further call of
\* the function leaves the callbacks as they are, also when the callback was
\* registered more than once.
C24Step ==
    \A h \in DOMAIN removers :
        removers'[h].calls = removers[h].calls + 1
            => IF removers[h].calls = 0
               THEN onChangeCallbacks' \in WithoutOne(onChangeCallbacks, removers[h].callback)
               ELSE onChangeCallbacks' = onChangeCallbacks

C24_RemovalIdempotent == [][C24Step]_vars

\* ---------------------------------------------------------- the jwt helpers
\* the tokens and thresholds that isTokenExpired is called with: every exp
\* claim up to MaxExp, and thresholds on both sides of it
JwtTokens == {EmptyToken, BadToken, NoExpToken} \cup {Jwt(e) : e \in 0..MaxExp}
JwtThresholds == 0..(MaxExp + 1)

\* the clock shows any time up to MaxExp
InitJwt ==
    /\ reqs = <<>>
    /\ cancelControllers = [k \in Keys |-> 0]
    /\ enableAutoCancellation = TRUE
    /\ beforeSend = "none"
    /\ afterSend = "none"
    /\ baseToken = EmptyToken
    /\ baseModel = NullModel
    /\ onChangeCallbacks = <<>>
    /\ binding = NoBinding
    /\ now \in 0..MaxExp
    /\ lastCall = NoCall
    /\ rt = RtInit
    /\ removers = <<>>
    /\ persistence = NoPersistence

\* a call of isTokenExpired(token, expirationThreshold): lastCall holds the
\* arguments, what the call threw and what it returned
IsTokenExpired ==
    \E token \in JwtTokens, expirationThreshold \in JwtThresholds :
        LET expired == isTokenExpired(token, expirationThreshold, now) IN
        Apply([St EXCEPT !.last =
                  [op |-> "isTokenExpired", threw |-> expired.err, notified |-> <<>>,
                   token |-> token, threshold |-> expirationThreshold,
                   val |-> expired.val]])

NextJwt == IsTokenExpired

SpecJwt == InitJwt /\ [][NextJwt]_vars

\* C25: for a token that decodes and has no exp claim, isTokenExpired returns
\* false whatever the threshold.
C25_NoExpNeverExpired ==
    (lastCall.op = "isTokenExpired" /\ lastCall.token = NoExpToken)
        => (lastCall.threw = "none" /\ ~lastCall.val)

\* C26: for a token with an exp claim, isTokenExpired(token, threshold)
\* returns true exactly when exp - threshold <= now, the case of equality
\* included.
C26_ExpiredAtThreshold ==
    (lastCall.op = "isTokenExpired" /\ lastCall.token.kind = "jwt")
        => /\ lastCall.threw = "none"
           /\ lastCall.val <=> (lastCall.token.exp - lastCall.threshold <= now)

\* ------------------------------------------------- the auth store and cookies
\* What cookieParse(cookie)[key] || '' yields: "absent" when the cookie has no
\* pair of the key, "text" for a value that is not an object, and an object
\* that has or lacks the token and model properties.
CookieValue(kind, hasToken, token, hasModel, model) ==
    [kind |-> kind, hasToken |-> hasToken, token |-> token,
     hasModel |-> hasModel, model |-> model]
CookieValues ==
    {CookieValue(k, FALSE, EmptyToken, FALSE, NullModel) : k \in {"absent", "text"}}
        \cup {CookieValue("object", hasToken, token, hasModel, model) :
                 hasToken \in BOOLEAN, token \in Tokens,
                 hasModel \in BOOLEAN, model \in Models}

\* isAuthModel(value)
isAuthModel(value) == value.kind \in {"null", "object"}

\* isAuthCookie(value) of loadFromCookie; a token of the model is a string
isAuthCookie(value) ==
    /\ value.kind = "object"
    /\ value.hasToken
    /\ value.hasModel
    /\ isAuthModel(value.model)

\* the application calls authStore.loadFromCookie(cookie); lastCall holds the
\* value of the cookie, the store call the method ended with and what the
\* method threw
LoadCookie ==
    \E value \in CookieValues :
        /\ ~value.hasToken => value.token = EmptyToken
        /\ ~value.hasModel => value.model = NullModel
        /\ LET s1 == loadFromCookie(St, isAuthCookie(value), value.token, value.model) IN
           Apply([s1 EXCEPT !.last =
                     [op |-> "loadFromCookie", threw |-> s1.last.threw,
                      notified |-> s1.last.notified, cookie |-> value,
                      did |-> s1.last.op]])

NextCookie ==
    \/ LoadCookie
    \/ StoreSave
    \/ StoreClear
    \/ OnChange
    \/ OnChangeOnce
    \/ Unsubscribe
    \/ Tick

SpecCookie == Init /\ [][NextCookie]_vars

InitAsync ==
    /\ reqs = <<>>
    /\ cancelControllers = [k \in Keys |-> 0]
    /\ enableAutoCancellation = TRUE
    /\ beforeSend = "none"
    /\ afterSend = "none"
    /\ baseToken = EmptyToken
    /\ baseModel = NullModel
    /\ onChangeCallbacks = <<>>
    /\ binding = NoBinding
    /\ now = 0
    /\ lastCall = NoCall
    /\ rt = RtInit
    /\ removers = <<>>
    /\ persistence \in {[clearFunc |-> c, calls |-> <<>>] : c \in BOOLEAN}

\* the promise that a call of the async save or clear returned: status is
\* "pending" while the call awaits the persistence function named by awaits,
\* then "ok" or "rejected"; failed tells that the persistence function rejected
AsyncCall(op, token, model, status, awaits) ==
    [op |-> op, token |-> token, model |-> model, status |-> status,
     awaits |-> awaits, failed |-> FALSE]

asyncCalled(s, call) ==
    [s EXCEPT !.persistence.calls = Append(s.persistence.calls, call)]

\* AsyncAuthStore.save(token, model) up to its await
asyncSave(s, token, model) ==
    IF model.kind = "null"
    THEN asyncCalled(s, AsyncCall("save", token, model, "rejected", "none"))
    ELSE LET s1 == save(s, token, model) IN
         IF s1.last.threw # "none"
         THEN asyncCalled(s1, AsyncCall("save", token, model, "rejected", "none"))
         ELSE asyncCalled(s1, AsyncCall("save", token, model, "pending", "saveFunc"))

\* AsyncAuthStore.clear() up to its await
asyncClear(s) ==
    asyncCalled(clear(s),
                AsyncCall("clear", EmptyToken, NullModel, "pending",
                          IF s.persistence.clearFunc THEN "clearFunc" ELSE "saveFunc"))

\* the persistence function that call i awaits settles, and the call goes on:
\* save catches the rejection, clear does not
persisted(s, i, ok) ==
    LET call == s.persistence.calls[i] IN
    [s EXCEPT !.persistence.calls[i].failed = ~ok,
              !.persistence.calls[i].status =
                  IF ok \/ call.op = "save" THEN "ok" ELSE "rejected"]

AsyncSave ==
    \E token \in Tokens, model \in Models :
        /\ Len(persistence.calls) < MaxAsync
        /\ Apply(asyncSave(St, token, model))

AsyncClear ==
    /\ Len(persistence.calls) < MaxAsync
    /\ Apply(asyncClear(St))

PersistResolve ==
    \E i \in DOMAIN persistence.calls :
        /\ persistence.calls[i].status = "pending"
        /\ persistence.calls[i].awaits # "initial"
        /\ Apply(persisted(St, i, TRUE))

PersistReject ==
    \E i \in DOMAIN persistence.calls :
        /\ persistence.calls[i].status = "pending"
        /\ persistence.calls[i].awaits # "initial"
        /\ Apply(persisted(St, i, FALSE))

NextAsync ==
    \/ AsyncSave
    \/ AsyncClear
    \/ PersistResolve
    \/ PersistReject
    \/ OnChange
    \/ Tick

SpecAsync == InitAsync /\ [][NextAsync]_vars

\* C28: a call of the async save or clear that reaches its persistence
\* function has written its token and model to the store; and when the
\* persistence function rejects, the promise of the call is resolved, not
\* rejected, and the token and the model of the store stay as they are.
C28Step ==
    /\ (Len(persistence'.calls) > Len(persistence.calls)
           /\ persistence'.calls[Len(persistence'.calls)].status = "pending")
          => /\ baseToken' = persistence'.calls[Len(persistence'.calls)].token
             /\ baseModel' = persistence'.calls[Len(persistence'.calls)].model
    /\ \A i \in DOMAIN persistence.calls :
          (persistence.calls[i].status = "pending" /\ persistence'.calls[i].failed)
              => /\ persistence'.calls[i].status = "ok"
                 /\ baseToken' = baseToken
                 /\ baseModel' = baseModel

C28_PersistenceFailureSwallowed == [][C28Step]_vars

\* ------------------------------------- auto refresh and the Authorization header
\* the application calls client.send(path, { headers: { Authorization } })
\* with a value of its own
SendAuthorized ==
    \E path \in CustomPaths :
        /\ Pending(St) = {}
        /\ Apply(send(Fresh, [NewReq("custom", FALSE, 0, "", 0) EXCEPT
                                 !.authorization = CustomAuthorization],
                      "GET", path, Unset))

NextHeaders ==
    \/ AuthWithPassword
    \/ SendPlain
    \/ SendAuthorized
    \/ ResetAutoRefresh
    \/ StoreClear
    \/ Tick
    \/ SetBeforeSend
    \/ HookResolve
    \/ HookReject
    \/ FetchResolve
    \/ FetchReject
    \/ FetchAbort
    \/ JsonResolve

SpecHeaders == Init /\ [][NextHeaders]_vars

\* the requests whose wrapper ends its refresh / reauthentication step in this
\* step and hands the request on
Resumed ==
    {i \in DOMAIN reqs : /\ reqs[i].pc = "hook" /\ reqs[i].hstage \in {"refresh", "reauth"}
                         /\ i \in DOMAIN reqs'
                         /\ reqs'[i].pc # "done"
                         /\ reqs'[i].hstage \notin {"refresh", "reauth"}}

\* the statement of C29 as the spec has it: after the step of the wrapper, a
\* request whose Authorization header is the token captured before the step
\* carries the token the store holds now, whatever the store holds.
C29OriginalStep ==
    \A i \in Resumed :
        IF reqs[i].authorization = reqs[i].oldToken
        THEN reqs'[i].authorization = baseToken'
        ELSE reqs'[i].authorization = reqs[i].authorization

C29_HeaderAlwaysCurrent == [][C29OriginalStep]_vars

\* C29: after the refresh / reauthentication step of the wrapper, a request
\* whose Authorization header is the token captured before the step carries
\* the token of the store when the store holds one, and keeps its header when
\* the store is empty; a request with another Authorization value, or with no
\* such header, keeps what it has.
C29Step ==
    \A i \in Resumed :
        IF /\ reqs[i].authorization # NoHeader
           /\ reqs[i].authorization = reqs[i].oldToken
           /\ baseToken' # EmptyToken
        THEN reqs'[i].authorization = baseToken'
        ELSE reqs'[i].authorization = reqs[i].authorization

C29_HeaderFollowsRefresh == [][C29Step]_vars

\* witness of C29: a request issued with the token of the store is handed on
\* after a refresh with the new token of the store, which differs from the
\* token captured
C29_Witness ==
    \E i \in DOMAIN reqs :
        /\ reqs[i].kind = "custom" /\ reqs[i].pc = "fetch"
        /\ reqs[i].oldToken # EmptyToken
        /\ reqs[i].authorization = baseToken
        /\ reqs[i].authorization # reqs[i].oldToken
        /\ \E j \in DOMAIN reqs : reqs[j].kind = "refresh" /\ reqs[j].parent = i
                                  /\ reqs[j].svc = "ok"

\* a request issued with an Authorization value of the caller is handed on
\* with that value after a refresh that changed the token of the store
C29_WitnessCustom ==
    \E i \in DOMAIN reqs :
        /\ reqs[i].kind = "custom" /\ reqs[i].pc = "fetch"
        /\ reqs[i].authorization = CustomAuthorization
        /\ reqs[i].oldToken # baseToken
        /\ \E j \in DOMAIN reqs : reqs[j].kind = "refresh" /\ reqs[j].parent = i
                                  /\ reqs[j].svc = "ok"

\* ---- subscribe on a connected channel
\* the subscriptions requests that the call started in this step sent
SentByCall ==
    {i \in DOMAIN reqs' : IsSubmit(reqs'[i]) /\ reqs'[i].ctl.owner = Len(rt'.calls)}

\* C30: a subscribe made while the service is connected sends a subscriptions
\* request, which carries the keys of the registry, exactly when its listener
\* is the first of its key; when the key had listeners already, it adds the
\* listener to the EventSource, sends nothing and returns its handle.
C30Step ==
    (Started("subscribe") /\ isConnected(St))
        => LET id == Len(rt'.calls)
               key == rt'.calls[id].key
           IN IF ~hasKeyListeners(St, key)
              THEN /\ Cardinality(SentByCall) = 1
                   /\ \A i \in SentByCall :
                          /\ reqs'[i].ctl.subscriptions = getNonEmptySubscriptionKeys(St) \cup {key}
                          /\ reqs'[i].pc # "done"
              ELSE /\ SentByCall = {}
                   /\ \A i \in DOMAIN reqs' : i \in DOMAIN reqs /\ reqs'[i] = reqs[i]
                   /\ rt'.attached = rt.attached \cup {<<key, id>>}
                   /\ rt'.calls[id].status = "ok"
                   /\ rt'.server = rt.server

C30_ResyncOnFirstListener == [][C30Step]_vars

\* witness of C30: the last call is a subscribe to a key that had a listener,
\* made on a connected service: its listener is on the EventSource with the
\* other one, and no subscriptions request is pending
C30_Witness ==
    /\ rt.calls # <<>>
    /\ isConnected(St)
    /\ LET id == Len(rt.calls) IN
         /\ rt.calls[id].op = "subscribe" /\ rt.calls[id].status = "ok"
         /\ Len(rt.subscriptions[rt.calls[id].key].ls) = 2
         /\ rt.subscriptions[rt.calls[id].key].ls[2] = id
         /\ <<rt.calls[id].key, id>> \in rt.attached
         /\ rt.server = getNonEmptySubscriptionKeys(St)
    /\ \A i \in DOMAIN reqs : reqs[i].pc = "done"

\* ---------------------------------------------------------------------
\* C31: after the transport of an acknowledged connection fails the channel
\* retries in the background: the failure rejects no caller and keeps the
\* registry; while the retry runs no pending call is rejected, except by a
\* refusal of its own request; the acknowledgement of a retry submits the
\* full current key set under the new session id and attaches every
\* registered listener to the new transport; when the handshake of the retry
\* completes the retry counter is zero and every registered listener is
\* attached
C31Step ==
    /\ (rt'.handler = "onerror" /\ rt.clientId # 0)
          => /\ \A c \in DOMAIN rt.calls : rt'.calls[c].status = rt.calls[c].status
             /\ rt'.subscriptions = rt.subscriptions
             /\ rt'.reconnectAttempts = rt.reconnectAttempts + 1
             /\ rt'.reconnectTimeoutId
    /\ \A c \in DOMAIN rt.calls :
          (rt.reconnectAttempts > 0 /\ rt.calls[c].status = "pending")
              => rt'.calls[c].status \in {"pending", "ok", "net"}
    /\ (~rt.acked /\ rt'.acked /\ rt.reconnectAttempts > 0)
          => /\ \E i \in DOMAIN reqs' :
                   /\ i \notin DOMAIN reqs \/ reqs[i] # reqs'[i]
                   /\ reqs'[i].ctl.clientId = rt.eventSource
                   /\ reqs'[i].ctl.subscriptions = getNonEmptySubscriptionKeys(St)
             /\ rt'.clientId = rt.eventSource
             /\ rt'.attached = registered(St)
    /\ (rt.reconnectAttempts > 0 /\ rt'.reconnectAttempts = 0 /\ rt'.acked)
          => rt'.attached = registered(Fresh')

C31_BackgroundRetry == [][C31Step]_vars

\* ---------------------------------------------------------------------
\* Concurrent requests under auto-refresh: the application sends up to
\* MaxSends requests at a time, each under a cancellation key that no pending
\* request of it uses.
SendKeyed ==
    \E path \in CustomPaths, requestKey \in {Unset, "k1"} :
        LET key == IF requestKey = Unset THEN "GET" \o path ELSE requestKey IN
        /\ Cardinality(Pending(St)) < MaxSends
        /\ Len(Fresh.reqs) + 3 <= 3 * MaxSends
        /\ Fresh.cc[key] \in {0, Settled}
        /\ Apply(send(Fresh, NewReq("custom", FALSE, 0, "", 0), "GET", path, requestKey))

NextConcurrent ==
    \/ AuthWithPassword
    \/ SendKeyed
    \/ Tick
    \/ FetchResolve
    \/ FetchReject
    \/ FetchAbort
    \/ JsonResolve

SpecConcurrent == Init /\ [][NextConcurrent]_vars

\* the reauthentication calls issued in this step
Reauthentications ==
    {j \in DOMAIN reqs' : j \notin DOMAIN reqs /\ reqs'[j].kind = "reauth"}

\* C32: with the binding installed and the token within the threshold,
\* requests sent concurrently under different cancellation keys cause no
\* reauthentication while the server accepts the refresh calls: the step that
\* starts a refresh cancels no pending refresh, and no reauthentication is
\* started because a refresh was cancelled
C32Step ==
    \A i \in DOMAIN reqs :
        (reqs[i].kind = "refresh" /\ reqs[i].pc # "done")
            => /\ ~reqs[i].aborted => ~reqs'[i].aborted
               /\ reqs'[i].result = "abort" => Reauthentications = {}

C32_ConcurrentRefreshNoReauth == [][C32Step]_vars

\* ---------------------------------------------------------------------
\* C33: a reauthentication of the auto-refresh wrapper that succeeds with the
\* principal the store already held leaves the binding installed: the wrapper
\* is still client.beforeSend and its listener is still registered, so a
\* later request with the token within the threshold is refreshed
C33Step ==
    \A i \in DOMAIN reqs :
        (/\ reqs[i].kind = "reauth" /\ reqs[i].pc # "done"
         /\ reqs'[i].svc = "ok"
         /\ baseModel.kind = "object" /\ baseModel' = baseModel)
            => /\ binding' # NoBinding
               /\ beforeSend' = "wrapper"
               /\ RefreshListeners(onChangeCallbacks') # {}

C33_ReauthKeepsBinding == [][C33Step]_vars

\* ---------------------------------------------------------------------
\* C34: when a subscribe call rejects (the connection attempt failed, or its
\* subscriptions request was refused), the listener it added is no longer in
\* the registry, nor on the EventSource
C34Step ==
    \A c \in DOMAIN rt'.calls :
        (/\ rt'.calls[c].op = "subscribe"
         /\ rt'.calls[c].status \notin {"pending", "ok"}
         /\ c \in DOMAIN rt.calls => rt.calls[c].status = "pending")
            => /\ \A i \in DOMAIN rt'.subscriptions[rt'.calls[c].key].ls :
                      rt'.subscriptions[rt'.calls[c].key].ls[i] # rt'.calls[c].listener
               /\ <<rt'.calls[c].key, rt'.calls[c].listener>> \notin rt'.attached

C34_RejectedSubscribeUnregistered == [][C34Step]_vars

\* ---------------------------------------------------------------------
\* A beforeSend hook of the application that resolves with replacement
\* options, { url, options: {} }: send() goes on with the object of the hook,
\* which has neither the signal nor the headers that initSendOptions set
HookReplace ==
    \E id \in DOMAIN reqs :
        /\ reqs[id].pc = "hook" /\ reqs[id].hstage = "user"
        /\ Apply(callFetch([St EXCEPT !.reqs[id].signal = FALSE,
                                      !.reqs[id].authorization = NoHeader], id))

NextReplace ==
    \/ SendCustom
    \/ AutoCancellation
    \/ CancelRequest
    \/ CancelAllRequests
    \/ SetBeforeSend
    \/ HookResolve
    \/ HookReplace
    \/ HookReject
    \/ FetchResolve
    \/ FetchReject
    \/ FetchAbort
    \/ JsonResolve
    \/ JsonReject

SpecReplace == Init /\ [][NextReplace]_vars

\* C35: a request that the pending-request registry holds a handle for is
\* dispatched with the abort signal of that handle, also after the hook
\* returned replacement options; and cancelling its key aborts the dispatched
\* request
C35Step ==
    \A k \in Keys :
        LET id == cancelControllers[k] IN
        (id \notin {0, Settled} /\ reqs[id].pc \in {"fetch", "json"})
            => /\ reqs[id].signal
               /\ (cancelControllers'[k] = 0 /\ id \in DOMAIN reqs')
                     => seesAbort(reqs'[id])

C35_DispatchedCarriesSignal == [][C35Step]_vars

\* ---------------------------------------------------------------------
\* The record services of two collections over one realtime service.
\* RecordService.subscribe(topic, callback)
RecordSubscribe ==
    \E c \in RecordCollections :
        /\ MayCall
        /\ MayConnect(subscribe(Fresh, recordTopic(c, <<"*">>), <<>>))
        /\ Apply(subscribe(Fresh, recordTopic(c, <<"*">>), <<>>))

\* RecordService.unsubscribe(topic?)
RecordUnsubscribe ==
    \E c \in RecordCollections, topic \in {<<>>, <<"*">>} :
        /\ MayCall
        /\ IF topic # <<>> THEN Apply(unsubscribe_(Fresh, recordTopic(c, topic)))
           ELSE Apply(unsubscribeByPrefix(Fresh, c))

NextRecords ==
    \/ RecordSubscribe
    \/ RecordUnsubscribe
    \/ PbConnect
    \/ ServerSets
    \/ SubmitResolve
    \/ SubmitReject
    \/ SubmitAbort

SpecRecords == Init /\ [][NextRecords]_vars

\* the keys of the subscriptions of a collection
collectionKeys(c) == {k \in RtKeys : startsWith(k, c \o <<"/">>)}

\* C36: RecordService.unsubscribe() without a topic removes the subscriptions
\* of its own collection only: the keys of every other collection, also of one
\* whose name starts with the name of this collection, stay in the registry
\* with their listeners, and the listeners stay on the EventSource
C36Step ==
    \A c \in RecordCollections :
        (Started("unsubscribeByPrefix") /\ rt'.calls[Len(rt'.calls)].topic = c)
            => \A k \in RtKeys \ collectionKeys(c) :
                  /\ rt'.subscriptions[k] = rt.subscriptions[k]
                  /\ rt.eventSource # 0 =>
                        \A p \in rt.attached : p[1] = k => p \in rt'.attached

C36_UnsubscribeOwnCollectionOnly == [][C36Step]_vars

\* ---------------------------------------------------------------------
\* The connection handling with its timers and requests running to their end.
\* reconnectAttempts only selects the delay of the timer and is compared with
\* maxReconnectAttempts = Infinity: every value from MaxAttempts on behaves as
\* MaxAttempts does, so the counter is kept at that value.  The number of a
\* closed EventSource that no pending request refers to is given to the next
\* EventSource once MaxConnects numbers are in use.
MaxAttempts == 2

saturate(s) ==
    IF s.rt.reconnectAttempts > MaxAttempts
    THEN [s EXCEPT !.rt.reconnectAttempts = MaxAttempts]
    ELSE s

\* eventSource.onerror
RetryTransportError ==
    /\ rt.eventSource # 0
    /\ Apply(saturate(connectErrorHandler([St EXCEPT !.rt.handler = "onerror"])))

\* the connect timeout fires
RetryConnectTimeout ==
    /\ rt.connectTimeoutId
    /\ Apply(saturate(connectErrorHandler([St EXCEPT !.rt.handler = "timeout"])))

\* the reconnect timeout fires
RetryReconnectTimeout ==
    /\ rt.reconnectTimeoutId
    /\ IF rt.transports < MaxConnects
       THEN Apply(initConnect([St EXCEPT !.rt.reconnectTimeoutId = FALSE]))
       ELSE /\ \A i \in DOMAIN reqs :
                  reqs[i].pc # "done" => reqs[i].ctl.clientId # MaxConnects
            /\ Apply(initConnect([St EXCEPT !.rt.reconnectTimeoutId = FALSE,
                                            !.rt.transports = MaxConnects - 1]))

\* the fetch of a subscriptions request fails
RetrySubmitReject ==
    \E id \in DOMAIN reqs :
        /\ IsSubmit(reqs[id]) /\ reqs[id].pc = "fetch" /\ ~reqs[id].aborted
        /\ Apply(saturate(submitted(St, id, "net")))

\* the fetch of a cancelled subscriptions request rejects
RetrySubmitAbort ==
    \E id \in DOMAIN reqs :
        /\ IsSubmit(reqs[id]) /\ reqs[id].pc = "fetch" /\ reqs[id].aborted
        /\ Apply(saturate(submitted(St, id, "abort")))

RequestCompletes == SubmitResolve \/ RetrySubmitReject \/ RetrySubmitAbort

\* the PB_CONNECT event arrives on an EventSource whose number is not given
\* out again: the server acknowledges no connection after that one
AckOnce ==
    /\ rt.eventSource < MaxConnects
    /\ PbConnect

NextRetry ==
    \/ Subscribe
    \/ AckOnce
    \/ RetryTransportError
    \/ RetryConnectTimeout
    \/ RetryReconnectTimeout
    \/ ServerSets
    \/ SubmitResolve
    \/ RetrySubmitReject
    \/ RetrySubmitAbort

\* timers fire and issued requests complete; the EventSource and the server
\* are under no obligation
SpecRetry ==
    /\ Init /\ [][NextRetry]_vars
    /\ WF_vars(RetryConnectTimeout)
    /\ WF_vars(RetryReconnectTimeout)
    /\ WF_vars(RequestCompletes)

\* C37: every subscribe call completes: the waiters queued in pendingConnects
\* are eventually resolved or rejected
C37_WaitersSettle == (rt.pendingConnects # <<>>) ~> (rt.pendingConnects = <<>>)

\* ---------------------------------------------------------------------
\* C38: a hook that the application assigned to client.beforeSend while the
\* binding was installed is still client.beforeSend after the binding is reset
C38Step ==
    (binding # NoBinding /\ binding' = NoBinding /\ beforeSend = "user")
        => beforeSend' = "user"

C38_ResetKeepsAssignedHook == [][C38Step]_vars

\* ---------------------------------------------------------------------
\* An AsyncAuthStore constructed with config.initial, a promise of the
\* persisted payload: the constructor calls #loadInitial, which awaits the
\* payload.  The call is recorded with the token and the model of the payload.
InitialPayloads ==
    {[token |-> t, model |-> m] : t \in {EmptyToken, Jwt(MaxExp)},
                                  m \in {NullModel, Principal("a", "")}}

InitInitial ==
    /\ reqs = <<>>
    /\ cancelControllers = [k \in Keys |-> 0]
    /\ enableAutoCancellation = TRUE
    /\ beforeSend = "none"
    /\ afterSend = "none"
    /\ baseToken = EmptyToken
    /\ baseModel = NullModel
    /\ onChangeCallbacks = <<>>
    /\ binding = NoBinding
    /\ now = 0
    /\ lastCall = NoCall
    /\ rt = RtInit
    /\ removers = <<>>
    /\ persistence \in
          {[clearFunc |-> c,
            calls |-> <<AsyncCall("loadInitial", p.token, p.model, "pending", "initial")>>] :
              c \in BOOLEAN, p \in InitialPayloads}

\* #loadInitial after its await: the payload resolved to an object, and
\* this.save(parsed.token || '', parsed.model || null) is called and not awaited
loadInitial(s, i) ==
    LET call == s.persistence.calls[i] IN
    asyncSave([s EXCEPT !.persistence.calls[i].status = "ok"], call.token, call.model)

\* the initial payload resolves
InitialResolve ==
    \E i \in DOMAIN persistence.calls, empty \in BOOLEAN :
        /\ persistence.calls[i].status = "pending"
        /\ persistence.calls[i].awaits = "initial"
        /\ IF empty THEN Apply([St EXCEPT !.persistence.calls[i].status = "ok"])
           ELSE Apply(loadInitial(St, i))

\* the initial payload rejects: #loadInitial catches the error
InitialReject ==
    \E i \in DOMAIN persistence.calls :
        /\ persistence.calls[i].status = "pending"
        /\ persistence.calls[i].awaits = "initial"
        /\ Apply([St EXCEPT !.persistence.calls[i].status = "ok",
                            !.persistence.calls[i].failed = TRUE])

NextInitial ==
    \/ AsyncSave
    \/ AsyncClear
    \/ PersistResolve
    \/ PersistReject
    \/ InitialResolve
    \/ InitialReject
    \/ OnChange

SpecInitial == InitInitial /\ [][NextInitial]_vars

\* the save and clear calls of the application that changed the store
Performed ==
    {j \in DOMAIN persistence.calls :
        /\ persistence.calls[j].op \in {"save", "clear"}
        /\ persistence.calls[j].awaits # "none"}

\* C39: a save or clear that the application performed before the initial
\* payload resolved is not overwritten when the payload resolves
C39Step ==
    \A i \in DOMAIN persistence.calls :
        (/\ persistence.calls[i].awaits = "initial"
         /\ persistence.calls[i].status = "pending"
         /\ persistence'.calls[i].status # "pending"
         /\ Performed # {})
            => baseToken' = baseToken /\ baseModel' = baseModel

C39_InitialDoesNotOverwrite == [][C39Step]_vars

\* ---------------------------------------------------------------------
\* exportToCookie(options, key), the part that sets the Expires attribute:
\* the exp claim of the token in seconds, or 0 for new Date('1970-01-01');
\* options.expires of the caller, when given, replaces it
exportToCookie(s, options) ==
    LET payload == getTokenPayload(s.token) IN
    IF payload.err # "none"
    THEN [s EXCEPT !.last = [op |-> "exportToCookie", threw |-> payload.err,
                             notified |-> <<>>, options |-> options, expires |-> 0]]
    ELSE [s EXCEPT !.last = [op |-> "exportToCookie", threw |-> "none",
                             notified |-> <<>>, options |-> options,
                             expires |-> IF options # Unset THEN MaxExp + 1
                                         ELSE IF payload.hasExp /\ payload.exp # 0
                                         THEN payload.exp ELSE 0]]

\* the application calls authStore.exportToCookie(options)
ExportToCookie ==
    \E options \in {Unset, "expires"} :
        LET s1 == exportToCookie(St, options) IN
        /\ s1.last.op = "exportToCookie"
        /\ Apply(s1)

NextExport ==
    \/ ExportToCookie
    \/ StoreSave
    \/ StoreClear
    \/ OnChange
    \/ Tick

SpecExport == Init /\ [][NextExport]_vars

\* C40: exportToCookie succeeds in every state of the store; with an empty
\* store, or a token without an exp claim, the Expires attribute of the cookie
\* is a date in the past
C40_ExportNeverThrows ==
    lastCall.op = "exportToCookie"
        => /\ lastCall.threw = "none"
           /\ (baseToken.kind \in {"empty", "noexp"} /\ lastCall.options = Unset)
                 => lastCall.expires = 0

====
